---- MODULE Spec2Model ----
(***************************************************************************)
(* Seat apportionment (utils/reglas_electorales.py, utils/cuociente.py),   *)
(* vote materialization (utils/calculos.py) and medoid selection           *)
(* (utils/simulacion.py) of simulador-elecciones-pba.                      *)
(*                                                                         *)
(* A group ("grupo") is the block of rows of one section that the          *)
(* groupby("seccion") loop of repartir_bancas hands to the loop body.      *)
(* Rows are numbered 1..n in input order; the columns votos, enteros,      *)
(* residuo and bancas are sequences indexed by row.                        *)
(***************************************************************************)
EXTENDS Integers, Sequences, FiniteSets, TLC

VARIABLES
    pc,         \* position inside the loop body of repartir_bancas
    votos,      \* grupo["votos"], in row order
    cargos,     \* grupo["cargos"].iloc[0]
    cuociente,  \* cuociente (line 10)
    q,          \* q of the Art. 110 loop (lines 30-32)
    enteros,    \* grupo["enteros"]
    residuo,    \* grupo["residuo"]
    bancas,     \* grupo["bancas"]
    faltan,     \* faltan
    art110,     \* TRUE once the Art. 110 branch (line 29) was taken
    previo,     \* grupo["bancas"] as it was when "Paso 5" started
    secciones,  \* chamber mapping seccion -> cargos, in iteration order
    creencias,  \* creencias_seccion(seccion), in the order of secciones
    padron,     \* padron_real[seccion], in the order of secciones
    tasas,      \* participacion and votos_validos_pct, in quarters
    filas,      \* rows returned by _generar_filas_para_camara
    pcFilas,    \* position of the materializer
    ensemble,   \* rows of the DataFrame handed to medoid
    elegido,    \* value returned by medoid
    pcMedoid,   \* position of the medoid computation
    dfLote,     \* DataFrame df handed to repartir_bancas, as a list of rows
    salida,     \* outcome of repartir_bancas(df)
    pcLote,     \* position of the call repartir_bancas(df)
    creenciasSim, \* creencias_global.values(), one percentage per list
    phi,        \* phi handed to simular_eleccion (None or a number)
    nSim,       \* n_sim, the slider "Simulaciones"
    pesosDir,   \* pesos_dir after np.maximum(eps, pesos_dir)
    iSim,       \* number of finished iterations of the loop over range(n_sim)
    dipSim,     \* dip_sim
    senSim,     \* sen_sim
    pcSim,      \* position inside the simulation branch
    PProv,      \* P_prov of the running call of simular_eleccion
    camara,     \* chamber simular_y_repartir is working on
    kSec,       \* next seccion of that chamber
    filasSim,   \* filas of simular_y_repartir
    dipActual,  \* dip of the running call
    sorteos,    \* np.random.dirichlet calls made by the running call
    resultados, \* what the branch computes after the loop (lines 683-697)
    creenciasNorm,     \* creencias of _normalizar_creencias_para_seccion
    seccionNorm,       \* seccion
    seccionesXAlianza, \* secciones_x_alianza
    normalizadas,      \* the mapping returned
    pcNorm,            \* position of that call
    creenciasPorSeccion, \* creencias_por_seccion
    seccionesXAlianzaSec, \* secciones_x_alianza of that call
    filasDip,          \* filas_dip of calcular_determinista_por_seccion
    filasSen,          \* filas_sen
    dipSec,            \* dip
    senSec,            \* sen
    pcSec,             \* position of that call
    creenciasGlobal,   \* creencias_global, the sliders of the running script
    esDeterministico,  \* es_deterministico
    cfgSeccion,        \* cfg_seccion
    creenciasSecApp,   \* creencias_por_seccion of the running script
    sesion,            \* st.session_state.resultados, <<>> while unset
    llamadas,          \* the computations the running script has invoked
    corridas,          \* presses of the button so far
    pcBoton            \* position of the running script

varsReparto == <<pc, votos, cargos, cuociente, q, enteros, residuo, bancas,
                 faltan, art110, previo>>
varsFilas   == <<secciones, creencias, padron, tasas, filas, pcFilas>>
varsMedoid  == <<ensemble, elegido, pcMedoid>>
varsLote    == <<dfLote, salida, pcLote>>
varsSim     == <<creenciasSim, phi, nSim, pesosDir, iSim, dipSim, senSim, pcSim,
                 PProv, camara, kSec, filasSim, dipActual, sorteos, resultados>>
varsNorm    == <<creenciasNorm, seccionNorm, seccionesXAlianza, normalizadas,
                 pcNorm>>
varsSec     == <<creenciasPorSeccion, seccionesXAlianzaSec, filasDip, filasSen,
                 dipSec, senSec, pcSec>>
varsBoton   == <<creenciasGlobal, esDeterministico, cfgSeccion, creenciasSecApp,
                 sesion, llamadas, corridas, pcBoton>>
vars        == <<varsReparto, varsFilas, varsMedoid, varsLote, varsSim,
                 varsNorm, varsSec, varsBoton>>

----------------------------------------------------------------------------
(* Bounds of the explored inputs *)

MaxListas == 4
MaxVotos == 3
MaxCargos == 5
MaxDelta == 2
MaxSecciones == 3
MaxCargosCamara == 2
MaxSorteos == 3
NumColumnas == 2
MaxBancasSorteo == 1
MaxFilasLote == 3
MaxVotosLote == 2
MaxSim == 3
MaxCreencia == 4
MaxCorridas == 2

----------------------------------------------------------------------------
(* Helpers *)

RECURSIVE SumSeq(_)
SumSeq(s) == IF s = <<>> THEN 0 ELSE Head(s) + SumSeq(Tail(s))

Max2(a, b) == IF a >= b THEN a ELSE b

SeqsUpTo(S, n) == UNION {[1..k -> S] : k \in 1..n}

----------------------------------------------------------------------------
(* Doubles.  A double other than 0.0 is a record: mant holds the 53 binary *)
(* digits of its significand, the first of them 1, and exp the power of 2  *)
(* the first digit stands for.  The operations round to the nearest        *)
(* double, ties to the even significand, as the arithmetic of Python and   *)
(* numpy does.  Only doubles >= 0 are needed.  Long numbers are handled    *)
(* as binary digits, and multiplied, divided and added in pieces of 16     *)
(* digits.                                                                 *)

\* The digits of the significand of a double
BitsDoble == 53

Cero == [exp |-> 0, mant |-> <<>>]

Ceros(n) == [i \in 1..n |-> 0]

\* The n binary digits of a whole number v, 0 <= v < 2^n
BitsDe(v, n) == [i \in 1..n |-> (v \div 2^(n - i)) % 2]

\* The whole number whose binary digits are b
RECURSIVE ValorDe(_)
ValorDe(b) ==
    IF Len(b) = 0 THEN 0
    ELSE IF Len(b) = 1 THEN b[1]
    ELSE LET h == Len(b) \div 2
         IN  ValorDe(SubSeq(b, 1, h)) * 2^(Len(b) - h)
                 + ValorDe(SubSeq(b, h + 1, Len(b)))

\* The digits b without the zeros at their head, and the number of these
SinCeros(b) ==
    IF \A i \in DOMAIN b : b[i] = 0
    THEN [digitos |-> <<>>, quitados |-> Len(b)]
    ELSE LET p == CHOOSE i \in DOMAIN b :
                      b[i] = 1 /\ \A j \in 1..(i - 1) : b[j] = 0
         IN  [digitos |-> SubSeq(b, p, Len(b)), quitados |-> p - 1]

\* The digits of the whole number b + 1
MasUno(b) ==
    IF \A i \in DOMAIN b : b[i] = 1 THEN <<1>> \o Ceros(Len(b))
    ELSE LET p == CHOOSE i \in DOMAIN b :
                      b[i] = 0 /\ \A j \in (i + 1)..Len(b) : b[j] = 1
         IN  [i \in DOMAIN b |-> IF i < p THEN b[i] ELSE IF i = p THEN 1 ELSE 0]

\* The double nearest to the number whose digits are b, the first of them
\* 1 and standing for 2^e, with something more after them when resto
Redondear(b, e, resto) ==
    IF Len(b) <= BitsDoble
    THEN [exp |-> e, mant |-> b \o Ceros(BitsDoble - Len(b))]
    ELSE LET m == SubSeq(b, 1, BitsDoble)
             mas == resto \/ \E i \in (BitsDoble + 2)..Len(b) : b[i] = 1
             sube == b[BitsDoble + 1] = 1 /\ (mas \/ m[BitsDoble] = 1)
             r == IF sube THEN MasUno(m) ELSE m
         IN  IF Len(r) > BitsDoble
             THEN [exp |-> e + 1, mant |-> SubSeq(r, 1, BitsDoble)]
             ELSE [exp |-> e, mant |-> r]

\* The double of the whole number whose digits are b, the last of them
\* standing for 2^bajo, with something more after them when resto
DeBits(b, bajo, resto) ==
    LET s == SinCeros(b)
    IN  IF s.digitos = <<>> THEN Cero
        ELSE Redondear(s.digitos, bajo + Len(s.digitos) - 1, resto)

\* 2^i modulo d
RECURSIVE Pot2Mod(_, _)
Pot2Mod(i, d) ==
    IF i = 0 THEN 1 % d
    ELSE LET h == Pot2Mod(i \div 2, d)
         IN  (((h * h) % d) * (IF i % 2 = 1 THEN 2 ELSE 1)) % d

\* a / b for whole numbers a >= 0 and 0 < b < 2^15: the whole part, and n
\* digits after the point, which are enough to round it
Cociente(a, b) ==
    LET n == BitsDoble + 17
        rem(i) == (Pot2Mod(i, b) * (a % b)) % b
        frac == [i \in 1..n |-> (2 * rem(i - 1)) \div b]
    IN  DeBits(BitsDe(a \div b, 31) \o frac, -n, rem(n) # 0)

\* The pieces of the whole number whose digits are b, the highest first
Trozos(b) ==
    LET n == (Len(b) + 15) \div 16
        p == Ceros(16 * n - Len(b)) \o b
    IN  [j \in 1..n |-> ValorDe(SubSeq(p, 16 * (j - 1) + 1, 16 * j))]

\* The digits of the whole number whose pieces are t
DeTrozos(t) ==
    [i \in 1..(16 * Len(t)) |-> BitsDe(t[(i - 1) \div 16 + 1], 16)[((i - 1) % 16) + 1]]

\* The pieces t[i..] times k, and what they carry to the piece before them
RECURSIVE PorTrozos(_, _, _)
PorTrozos(t, k, i) ==
    IF i > Len(t) THEN [trozos |-> <<>>, lleva |-> 0]
    ELSE LET sig == PorTrozos(t, k, i + 1)
             v == t[i] * k + sig.lleva
         IN  [trozos |-> <<v % 2^16>> \o sig.trozos, lleva |-> v \div 2^16]

\* x * k for a double x and a whole number k, 0 <= k < 2^15
Por(x, k) ==
    IF x = Cero \/ k = 0 THEN Cero
    ELSE LET p == PorTrozos(Trozos(x.mant), k, 1)
         IN  DeBits(BitsDe(p.lleva, 16) \o DeTrozos(p.trozos),
                    x.exp - (BitsDoble - 1), FALSE)

\* The pieces t[i..] over k, rem being left by the pieces before them, and
\* what is left in the end
RECURSIVE EntreTrozos(_, _, _, _)
EntreTrozos(t, k, i, rem) ==
    IF i > Len(t) THEN [trozos |-> <<>>, resto |-> rem]
    ELSE LET v == rem * 2^16 + t[i]
             sig == EntreTrozos(t, k, i + 1, v % k)
         IN  [trozos |-> <<v \div k>> \o sig.trozos, resto |-> sig.resto]

\* x / k for a double x and a whole number k, 0 < k < 2^15: the
\* significand is taken n digits further, up to five pieces, which are
\* enough to round the quotient
Dividir(x, k) ==
    IF x = Cero THEN Cero
    ELSE LET n == 5 * 16 - BitsDoble
             c == EntreTrozos(Trozos(x.mant \o Ceros(n)), k, 1, 0)
         IN  DeBits(DeTrozos(c.trozos), x.exp - (BitsDoble - 1) - n, c.resto # 0)

\* The pieces s[i..] plus the pieces t[i..], and what they carry
RECURSIVE MasTrozos(_, _, _)
MasTrozos(s, t, i) ==
    IF i > Len(s) THEN [trozos |-> <<>>, lleva |-> 0]
    ELSE LET sig == MasTrozos(s, t, i + 1)
             v == s[i] + t[i] + sig.lleva
         IN  [trozos |-> <<v % 2^16>> \o sig.trozos, lleva |-> v \div 2^16]

\* x + y
Suma(x, y) ==
    IF x = Cero THEN y
    ELSE IF y = Cero THEN x
    ELSE LET alto == IF x.exp < y.exp THEN y.exp ELSE x.exp
             bajo == (IF x.exp < y.exp THEN x.exp ELSE y.exp) - (BitsDoble - 1)
             en(z) == Ceros(alto - z.exp) \o z.mant
                          \o Ceros(z.exp - (BitsDoble - 1) - bajo)
             t == MasTrozos(Trozos(en(x)), Trozos(en(y)), 1)
         IN  DeBits(BitsDe(t.lleva, 1) \o DeTrozos(t.trozos), bajo, FALSE)

\* int(x): the whole part of x < 2^31
Truncar(x) ==
    IF x = Cero \/ x.exp < 0 THEN 0
    ELSE ValorDe(SubSeq(x.mant \o Ceros(x.exp), 1, x.exp + 1))

\* rint(x): the nearest whole number, the even one of two equally near
Rint(x) ==
    IF x = Cero \/ x.exp < -1 THEN 0
    ELSE LET n == Truncar(x)
             medio == x.exp + 2 <= BitsDoble /\ x.mant[x.exp + 2] = 1
             mas == \E i \in (x.exp + 3)..BitsDoble : x.mant[i] = 1
         IN  IF medio /\ (mas \/ n % 2 = 1) THEN n + 1 ELSE n

----------------------------------------------------------------------------
(* repartir_bancas: the pure pieces of the loop body *)

\* a // b on numpy integers: floor division, and 0 (with a RuntimeWarning,
\* no exception) when b is 0
FloorDiv(a, b) == IF b = 0 THEN 0 ELSE a \div b

\* cuociente = max(1, total_votos // cargos)
Cuociente(v, c) == Max2(1, FloorDiv(SumSeq(v), c))

\* grupo["votos"] // divisor
Enteros(v, divisor) == [i \in DOMAIN v |-> v[i] \div divisor]

\* grupo["votos"] % divisor
Residuo(v, divisor) == [i \in DOMAIN v |-> v[i] % divisor]

\* As AntesDesc, with the sort ascending instead of descending
AntesDescAscendente(res, v, j, i) ==
    \/ res[j] < res[i]
    \/ res[j] = res[i] /\ v[j] < v[i]
    \/ res[j] = res[i] /\ v[j] = v[i] /\ j < i

\* Row j comes before row i in sort_values(["residuo","votos"],
\* ascending=False); the multi-key sort is stable, so full ties keep the
\* input order.
AntesDesc(res, v, j, i) ==
    \/ res[j] > res[i]
    \/ res[j] = res[i] /\ v[j] > v[i]
    \/ res[j] = res[i] /\ v[j] = v[i] /\ j < i

\* The same for ascending=True.
AntesAsc(res, v, j, i) ==
    \/ res[j] < res[i]
    \/ res[j] = res[i] /\ v[j] < v[i]
    \/ res[j] = res[i] /\ v[j] = v[i] /\ j < i

\* As HeadDesc, without the head(k) cut
HeadDescSinCorte(elig, res, v, k) == elig

\* elig.sort_values([...], ascending=False).head(k).index
HeadDesc(elig, res, v, k) ==
    {i \in elig : Cardinality({j \in elig : AntesDesc(res, v, j, i)}) < k}

\* elig.sort_values([...], ascending=True).head(k).index
HeadAsc(elig, res, v, k) ==
    {i \in elig : Cardinality({j \in elig : AntesAsc(res, v, j, i)}) < k}

\* As Premiados, without the filter enteros > 0
PremiadosSinFiltro(v, ent, res, f) ==
    IF f > 0
    THEN HeadDesc(DOMAIN v, res, v, f)
    ELSE {}

\* Rows that receive a remainder seat: empty unless faltan > 0.
Premiados(v, ent, res, f) ==
    IF f > 0
    THEN HeadDesc({i \in DOMAIN v : ent[i] > 0}, res, v, f)
    ELSE {}

\* As AsignarRestos, the whole difference going to the first row premiada
AsignarRestosJuntos(v, ent, res, b, f) ==
    LET P == Premiados(v, ent, res, f)
    IN  [i \in DOMAIN b |->
            IF i \in P /\ \A j \in P : i <= j THEN b[i] + Cardinality(P)
            ELSE b[i]]

\* if faltan > 0: ... grupo.loc[idx, "bancas"] += 1
AsignarRestos(v, ent, res, b, f) ==
    [i \in DOMAIN b |-> IF i \in Premiados(v, ent, res, f) THEN b[i] + 1 ELSE b[i]]

\* As QuitarSobrantes, the rows chosen losing every seat they hold
QuitarSobrantesVaciando(v, res, b, f) ==
    IF f < 0
    THEN LET idx == HeadAsc({i \in DOMAIN b : b[i] > 0}, res, v, -f)
         IN  [i \in DOMAIN b |-> IF i \in idx THEN 0 ELSE b[i]]
    ELSE b

\* elif faltan < 0: ... grupo.loc[idx, "bancas"] -= 1
QuitarSobrantes(v, res, b, f) ==
    IF f < 0
    THEN LET idx == HeadAsc({i \in DOMAIN b : b[i] > 0}, res, v, -f)
         IN  [i \in DOMAIN b |-> IF i \in idx THEN b[i] - 1 ELSE b[i]]
    ELSE b

\* As IdxMax, taking the last row holding the maximum
IdxMaxUltimo(v) ==
    CHOOSE i \in DOMAIN v :
        /\ \A j \in DOMAIN v : v[j] <= v[i]
        /\ \A j \in DOMAIN v : j > i => v[j] < v[i]

\* grupo["votos"].idxmax(): the first row holding the maximum
IdxMax(v) ==
    CHOOSE i \in DOMAIN v :
        /\ \A j \in DOMAIN v : v[j] <= v[i]
        /\ \A j \in DOMAIN v : j < i => v[j] < v[i]

\* As Completar, acting only on a positive difference
CompletarSoloFaltantes(v, b, c) ==
    LET f == c - SumSeq(b)
    IN  IF f > 0
        THEN [b EXCEPT ![IdxMax(v)] = @ + f]
        ELSE b

\* Paso 5: if faltan: grupo.loc[top, "bancas"] += faltan
Completar(v, b, c) ==
    LET f == c - SumSeq(b)
    IN  IF f # 0
        THEN [b EXCEPT ![IdxMax(v)] = @ + f]
        ELSE b

\* One pass of the Art. 110 loop body with divisor d (lines 33-53)
PasadaArt110(v, c, d) ==
    LET ent == Enteros(v, d)
        res == Residuo(v, d)
        f   == c - SumSeq(ent)
    IN  [enteros |-> ent,
         residuo |-> res,
         faltan  |-> f,
         bancas  |-> IF f > 0 THEN AsignarRestos(v, ent, res, ent, f)
                     ELSE QuitarSobrantes(v, res, ent, f)]

----------------------------------------------------------------------------
(* repartir_bancas as a function of one group *)

\* Outcome of a call that never leaves the while loop
NoTermina == [termina |-> FALSE, bancas |-> <<>>]

\* The while loop of lines 31-53, entered with divisor d.  With d = 1 and no
\* seat assigned the next pass repeats the same computation for ever.
RECURSIVE BucleArt110(_, _, _)
BucleArt110(v, c, d) ==
    LET d2 == Max2(1, d \div 2)
        g  == PasadaArt110(v, c, d2)
    IN  IF SumSeq(g.bancas) # 0 THEN [termina |-> TRUE, bancas |-> g.bancas]
        ELSE IF d2 = d THEN NoTermina
        ELSE BucleArt110(v, c, d2)

\* Outcome of the loop body for a group with votes v and c seats: whether it
\* returns, and the bancas column it returns
RepartirGrupo(v, c) ==
    LET q0  == Cuociente(v, c)
        ent == Enteros(v, q0)
        res == Residuo(v, q0)
        b1  == AsignarRestos(v, ent, res, ent, c - SumSeq(ent))
        r   == IF SumSeq(b1) = 0 THEN BucleArt110(v, c, q0)
               ELSE [termina |-> TRUE, bancas |-> b1]
    IN  IF r.termina
        THEN [termina |-> TRUE, bancas |-> Completar(v, r.bancas, c)]
        ELSE NoTermina

----------------------------------------------------------------------------
(* repartir_bancas step by step *)

\* The two worked examples of the specification, and a group whose
\* cuociente goes from 6 to 7 when the last list gains one vote
Ejemplos == { [votos |-> <<600, 300, 100>>, cargos |-> 4],
              [votos |-> <<1, 1>>, cargos |-> 3],
              [votos |-> <<0, 11, 23>>, cargos |-> 5] }

Entradas ==
    Ejemplos \cup
    { [votos |-> v, cargos |-> c] : v \in SeqsUpTo(0..MaxVotos, MaxListas),
                                    c \in 1..MaxCargos }

RepartoInactivo ==
    /\ pc = "inactivo"
    /\ votos = <<>>
    /\ cargos = 0
    /\ cuociente = 0
    /\ q = 0
    /\ enteros = <<>>
    /\ residuo = <<>>
    /\ bancas = <<>>
    /\ faltan = 0
    /\ art110 = FALSE
    /\ previo = <<>>

FilasInactivo ==
    /\ secciones = <<>>
    /\ creencias = <<>>
    /\ padron = <<>>
    /\ tasas = <<>>
    /\ filas = <<>>
    /\ pcFilas = "inactivo"

MedoidInactivo ==
    /\ ensemble = <<>>
    /\ elegido = <<>>
    /\ pcMedoid = "inactivo"

LoteInactivo ==
    /\ dfLote = <<>>
    /\ salida = <<>>
    /\ pcLote = "inactivo"

NormInactivo ==
    /\ creenciasNorm = <<>>
    /\ seccionNorm = 0
    /\ seccionesXAlianza = <<>>
    /\ normalizadas = <<>>
    /\ pcNorm = "inactivo"

SecInactivo ==
    /\ creenciasPorSeccion = <<>>
    /\ seccionesXAlianzaSec = <<>>
    /\ filasDip = <<>>
    /\ filasSen = <<>>
    /\ dipSec = <<>>
    /\ senSec = <<>>
    /\ pcSec = "inactivo"

BotonInactivo ==
    /\ creenciasGlobal = <<>>
    /\ esDeterministico = FALSE
    /\ cfgSeccion = FALSE
    /\ creenciasSecApp = <<>>
    /\ sesion = <<>>
    /\ llamadas = <<>>
    /\ corridas = 0
    /\ pcBoton = "inactivo"

SimInactivo ==
    /\ creenciasSim = <<>>
    /\ phi = <<>>
    /\ nSim = 0
    /\ pesosDir = <<>>
    /\ iSim = 0
    /\ dipSim = <<>>
    /\ senSim = <<>>
    /\ pcSim = "inactivo"
    /\ PProv = <<>>
    /\ camara = ""
    /\ kSec = 0
    /\ filasSim = <<>>
    /\ dipActual = <<>>
    /\ sorteos = <<>>
    /\ resultados = <<>>

Init ==
    /\ \E e \in Entradas : votos = e.votos /\ cargos = e.cargos
    /\ pc = "inicio"
    /\ cuociente = 0
    /\ q = 0
    /\ enteros = <<>>
    /\ residuo = <<>>
    /\ bancas = <<>>
    /\ faltan = 0
    /\ art110 = FALSE
    /\ previo = <<>>
    /\ FilasInactivo
    /\ MedoidInactivo
    /\ LoteInactivo
    /\ SimInactivo
    /\ NormInactivo
    /\ SecInactivo
    /\ BotonInactivo

\* lines 8-15
PrimerReparto ==
    /\ pc = "inicio"
    /\ cuociente' = Cuociente(votos, cargos)
    /\ enteros' = Enteros(votos, cuociente')
    /\ residuo' = Residuo(votos, cuociente')
    /\ bancas' = enteros'
    /\ pc' = "restos"
    /\ UNCHANGED <<votos, cargos, q, faltan, art110, previo>>
    /\ UNCHANGED <<varsFilas, varsMedoid, varsLote, varsSim, varsNorm, varsSec, varsBoton>>

\* lines 18-30
RepartirRestos ==
    /\ pc = "restos"
    /\ faltan' = cargos - SumSeq(bancas)
    /\ bancas' = AsignarRestos(votos, enteros, residuo, bancas, faltan')
    /\ IF SumSeq(bancas') = 0
       THEN /\ art110' = TRUE
            /\ q' = cuociente
            /\ pc' = "mientras"
       ELSE /\ pc' = "completar"
            /\ UNCHANGED <<art110, q>>
    /\ UNCHANGED <<votos, cargos, cuociente, enteros, residuo, previo>>
    /\ UNCHANGED <<varsFilas, varsMedoid, varsLote, varsSim, varsNorm, varsSec, varsBoton>>

\* line 31: the test of the while loop
EvaluarMientras ==
    /\ pc = "mientras"
    /\ pc' = IF SumSeq(bancas) = 0 THEN "cuerpo" ELSE "completar"
    /\ UNCHANGED <<votos, cargos, cuociente, q, enteros, residuo, bancas,
                   faltan, art110, previo>>
    /\ UNCHANGED <<varsFilas, varsMedoid, varsLote, varsSim, varsNorm, varsSec, varsBoton>>

\* lines 32-53: the body of the while loop
IterarArt110 ==
    /\ pc = "cuerpo"
    /\ q' = Max2(1, q \div 2)
    /\ LET g == PasadaArt110(votos, cargos, q')
       IN  /\ enteros' = g.enteros
           /\ residuo' = g.residuo
           /\ faltan' = g.faltan
           /\ bancas' = g.bancas
    /\ pc' = "mientras"
    /\ UNCHANGED <<votos, cargos, cuociente, art110, previo>>
    /\ UNCHANGED <<varsFilas, varsMedoid, varsLote, varsSim, varsNorm, varsSec, varsBoton>>

\* lines 56-61
CompletarConMasVotada ==
    /\ pc = "completar"
    /\ previo' = bancas
    /\ faltan' = cargos - SumSeq(bancas)
    /\ bancas' = Completar(votos, bancas, cargos)
    /\ pc' = "fin"
    /\ UNCHANGED <<votos, cargos, cuociente, q, enteros, residuo, art110>>
    /\ UNCHANGED <<varsFilas, varsMedoid, varsLote, varsSim, varsNorm, varsSec, varsBoton>>

Next ==
    \/ PrimerReparto
    \/ RepartirRestos
    \/ EvaluarMientras
    \/ IterarArt110
    \/ CompletarConMasVotada

Spec == Init /\ [][Next]_vars

\* The interpreter keeps executing the loop body while a step is possible.
FairSpec == Init /\ [][Next]_vars /\ WF_vars(Next)

----------------------------------------------------------------------------
(* Properties of repartir_bancas *)

Listas == DOMAIN votos

SinVotos == \A i \in Listas : votos[i] = 0

\* The group with list k given d more votes
ConMasVotos(k, d) == [votos EXCEPT ![k] = @ + d]

\* C1: when the loop body returns, the bancas of the section summed over its
\* lists equal the cargos of the section.
C1_SumaExacta == pc = "fin" => SumSeq(bancas) = cargos

\* C1 witness: a group that ended after "Paso 5" corrected an excess and
\* another list already held seats.
C1_Witness ==
    /\ pc = "fin"
    /\ faltan < 0
    /\ SumSeq(bancas) = cargos
    /\ Len(votos) >= 2

\* C2: every returned row has bancas >= 0.
C2_BancasNoNegativas == pc = "fin" => \A i \in Listas : bancas[i] >= 0

\* C3: giving one list more votes, the others unchanged, never lowers the
\* bancas that list receives.
C3_Monotonia ==
    pc = "fin" =>
        \A k \in Listas, d \in 1..MaxDelta :
            LET r == RepartirGrupo(ConMasVotos(k, d), cargos)
            IN  r.termina /\ r.bancas[k] >= bancas[k]

EsEjemploCuatro == votos = <<600, 300, 100>> /\ cargos = 4

\* C4 as stated: votes 600, 300, 100 and 4 cargos give cuociente 250, enteros
\* 2, 1, 0, the remaining seat to the second list and bancas 2, 2, 0.
C4_Original ==
    pc = "fin" /\ EsEjemploCuatro =>
        /\ cuociente = 250
        /\ enteros = <<2, 1, 0>>
        /\ bancas = <<2, 2, 0>>

\* C4 amended: votes 600, 300, 100 and 4 cargos give cuociente 250, enteros
\* 2, 1, 0 and residuos 100, 50, 100; the remaining seat goes to the first
\* list (largest residuo among the lists with enteros >= 1) and the bancas
\* returned are 3, 1, 0.
C4_EjemploCuatro ==
    pc = "fin" /\ EsEjemploCuatro =>
        /\ cuociente = 250
        /\ enteros = <<2, 1, 0>>
        /\ residuo = <<100, 50, 100>>
        /\ ~art110
        /\ bancas = <<3, 1, 0>>

\* C4 witness: the example has been apportioned.
C4_Witness == pc = "fin" /\ EsEjemploCuatro /\ SumSeq(bancas) = 4

EsEjemploUno == votos = <<1, 1>> /\ cargos = 3

\* C5: votes 1, 1 and 3 cargos: cuociente 1, enteros 1, 1, residuos 0, 0; the
\* one missing seat is given by the remainder step to exactly one list, the
\* Art. 110 loop is never entered and the bancas returned sum to 3.
C5_EjemploUno ==
    EsEjemploUno =>
        /\ pc \in {"restos", "completar", "fin"} =>
              /\ cuociente = 1
              /\ enteros = <<1, 1>>
              /\ residuo = <<0, 0>>
        /\ pc \notin {"mientras", "cuerpo"} /\ ~art110
        /\ pc \in {"completar", "fin"} =>
              /\ SumSeq(bancas) = 3
              /\ Cardinality({i \in Listas : bancas[i] = enteros[i] + 1}) = 1
              /\ Cardinality({i \in Listas : bancas[i] = enteros[i]}) = 1
        /\ pc = "fin" => bancas = previo

\* C5 witness: the example has been apportioned, one list holding 2 seats.
C5_Witness ==
    /\ pc = "fin"
    /\ EsEjemploUno
    /\ \E i \in Listas : bancas[i] = 2

\* C6: a group holding only zero-vote rows is apportioned: the loop body
\* ends and the bancas returned sum to cargos.
C6_SinVotosTermina ==
    (pc = "inicio" /\ SinVotos) ~> (pc = "fin" /\ SumSeq(bancas) = cargos)

\* C8: when some list reaches the cuociente, every list below the cuociente
\* ends with 0 bancas.
C8_SinCuocienteSinBanca ==
    pc = "fin" /\ (\E i \in Listas : votos[i] >= cuociente) =>
        \A i \in Listas : votos[i] < cuociente => bancas[i] = 0

\* C8 witness: a list with votes below the cuociente, in a group where the
\* remainder step and "Paso 5" both added seats.
C8_Witness ==
    /\ pc = "fin"
    /\ ~art110
    /\ \E i \in Listas : votos[i] > 0 /\ votos[i] < cuociente /\ bancas[i] = 0
    /\ previo # enteros
    /\ faltan > 0

----------------------------------------------------------------------------
(* _generar_filas_para_camara (utils/calculos.py) *)

\* validos = int(pad * participacion * votos_validos_pct).  The two rates
\* are held in quarters: t.participacion stands for the float
\* t.participacion / 4, which is exact in binary floating point, as is the
\* product pad * participacion * votos_validos_pct.
Validos(pad, t) ==
    (pad * t.participacion * t.votos_validos_pct) \div 16

\* votos = int(validos * pct / 100), pct being a double: the product and
\* the quotient are each rounded to a double, and int() cuts the result
VotosDe(validos, pct) == Truncar(Dividir(Por(pct, validos), 100))

\* The rows appended for one seccion by the inner for loop (lines 50-54)
FilasDeSeccion(sec, pad, cre, t) ==
    [k \in 1..Len(cre) |->
        [seccion |-> sec.seccion,
         lista   |-> cre[k].alianza,
         votos   |-> VotosDe(Validos(pad, t), cre[k].pct),
         cargos  |-> sec.cargos]]

\* The placeholder row of line 56
FilaNinguna(sec) ==
    [seccion |-> sec.seccion, lista |-> "Ninguna", votos |-> 0,
     cargos |-> sec.cargos]

\* The for loop of lines 47-56 from the i-th seccion on, acc being the list
\* filas built so far; "if not filas" looks at the whole list.
RECURSIVE GenerarDesde(_, _, _, _, _, _)
GenerarDesde(i, acc, secs, pads, cres, t) ==
    IF i > Len(secs) THEN acc
    ELSE LET con == acc \o FilasDeSeccion(secs[i], pads[i], cres[i], t)
             sig == IF con = <<>> THEN Append(con, FilaNinguna(secs[i]))
                    ELSE con
         IN  GenerarDesde(i + 1, sig, secs, pads, cres, t)

\* _generar_filas_para_camara(secciones, padron_real, creencias_seccion,
\*                            participacion, votos_validos_pct)
GenerarFilasParaCamara(secs, pads, cres, t) ==
    GenerarDesde(1, <<>>, secs, pads, cres, t)

\* The percentages 100 * v / total of the normalized beliefs below, each as
\* the whole numbers 100 * v and total it is the quotient of
PorcentajesPosibles ==
    { [num |-> 100, den |-> 1], [num |-> 25, den |-> 1], [num |-> 75, den |-> 1],
      [num |-> 2900, den |-> 37], [num |-> 800, den |-> 37] }

\* The double 100 * v / total of each of them
DobleDe == [p \in PorcentajesPosibles |-> Cociente(p.num, p.den)]

\* Normalized beliefs a seccion can have: none eligible, one list, two
\* lists, the last from the sliders 29 and 8
CreenciasPosibles ==
    { <<>>,
      <<[alianza |-> "A", pct |-> DobleDe[[num |-> 100, den |-> 1]]]>>,
      <<[alianza |-> "A", pct |-> DobleDe[[num |-> 25, den |-> 1]]],
        [alianza |-> "B", pct |-> DobleDe[[num |-> 75, den |-> 1]]]>>,
      <<[alianza |-> "A", pct |-> DobleDe[[num |-> 2900, den |-> 37]]],
        [alianza |-> "B", pct |-> DobleDe[[num |-> 800, den |-> 37]]]>> }

PadronesPosibles == {10, 37}

TasasPosibles == { [participacion |-> 4, votos_validos_pct |-> 4],
                   [participacion |-> 3, votos_validos_pct |-> 2] }

InitFilas ==
    /\ \E n \in 1..MaxSecciones :
          /\ \E cs \in [1..n -> 1..MaxCargosCamara] :
                secciones = [i \in 1..n |-> [seccion |-> i, cargos |-> cs[i]]]
          /\ creencias \in [1..n -> CreenciasPosibles]
          /\ padron \in [1..n -> PadronesPosibles]
    /\ tasas \in TasasPosibles
    /\ filas = <<>>
    /\ pcFilas = "inicio"
    /\ RepartoInactivo
    /\ MedoidInactivo
    /\ LoteInactivo
    /\ SimInactivo
    /\ NormInactivo
    /\ SecInactivo
    /\ BotonInactivo

\* One call of _generar_filas_para_camara
GenerarFilas ==
    /\ pcFilas = "inicio"
    /\ filas' = GenerarFilasParaCamara(secciones, padron, creencias, tasas)
    /\ pcFilas' = "fin"
    /\ UNCHANGED <<secciones, creencias, padron, tasas>>
    /\ UNCHANGED <<varsReparto, varsMedoid, varsLote, varsSim, varsNorm, varsSec, varsBoton>>

NextFilas == GenerarFilas

SpecFilas == InitFilas /\ [][NextFilas]_vars

\* C7: every seccion of the chamber whose normalized belief is empty has at
\* least one row in the list returned, wherever it stands in the iteration.
C7_FilaPorSeccion ==
    pcFilas = "fin" =>
        \A i \in DOMAIN secciones :
            creencias[i] = <<>> =>
                \E k \in DOMAIN filas : filas[k].seccion = secciones[i].seccion

----------------------------------------------------------------------------
(* medoid (utils/simulacion.py) *)

Abs(x) == IF x < 0 THEN -x ELSE x

\* cityblock distance between two rows
CityBlock(a, b) ==
    LET RECURSIVE Hasta(_)
        Hasta(k) == IF k = 0 THEN 0 ELSE Abs(a[k] - b[k]) + Hasta(k - 1)
    IN  Hasta(Len(a))

\* D = cdist(df.values, df.values, metric="cityblock")
Cdist(df) == [i \in DOMAIN df |-> [j \in DOMAIN df |-> CityBlock(df[i], df[j])]]

\* D.sum(axis=1)
SumaPorFila(D) == [i \in DOMAIN D |-> SumSeq(D[i])]

\* As NanArgMin, taking the largest entry
NanArgMinMayor(x) ==
    CHOOSE i \in DOMAIN x :
        /\ \A j \in DOMAIN x : x[j] <= x[i]
        /\ \A j \in DOMAIN x : j < i => x[j] < x[i]

\* As NanArgMin, taking the last position of the smallest entry
NanArgMinUltimo(x) ==
    CHOOSE i \in DOMAIN x :
        /\ \A j \in DOMAIN x : x[i] <= x[j]
        /\ \A j \in DOMAIN x : j > i => x[j] > x[i]

\* np.nanargmin: the first position of the smallest entry
NanArgMin(x) ==
    CHOOSE i \in DOMAIN x :
        /\ \A j \in DOMAIN x : x[i] <= x[j]
        /\ \A j \in DOMAIN x : j < i => x[j] > x[i]

\* As Medoid, taking the mean of every column, cut by astype(int)
MediaTruncada(df) ==
    [c \in DOMAIN df[1] |->
        SumSeq([i \in DOMAIN df |-> df[i][c]]) \div Len(df)]

\* As Medoid, taking column idx instead of row idx
MedoidPorColumna(df) ==
    LET idx == NanArgMin(SumaPorFila(Cdist(df)))
    IN  [i \in DOMAIN df |-> df[i][idx]]

\* medoid(df) for a non-empty frame of whole numbers, which fillna(0) and
\* astype(int) leave as they are: df.iloc[idx]
Medoid(df) == df[NanArgMin(SumaPorFila(Cdist(df)))]

InitMedoid ==
    /\ \E n \in 0..MaxSorteos :
          ensemble \in [1..n -> [1..NumColumnas -> 0..MaxBancasSorteo]]
    /\ elegido = <<>>
    /\ pcMedoid = "inicio"
    /\ RepartoInactivo
    /\ FilasInactivo
    /\ LoteInactivo
    /\ SimInactivo
    /\ NormInactivo
    /\ SecInactivo
    /\ BotonInactivo

\* lines 42-43: raise ValueError("DataFrame vacío")
MedoidVacio ==
    /\ pcMedoid = "inicio"
    /\ ensemble = <<>>
    /\ pcMedoid' = "ValueError"
    /\ UNCHANGED <<ensemble, elegido>>
    /\ UNCHANGED <<varsReparto, varsFilas, varsLote, varsSim, varsNorm, varsSec, varsBoton>>

\* lines 44-46
MedoidElegir ==
    /\ pcMedoid = "inicio"
    /\ ensemble # <<>>
    /\ elegido' = Medoid(ensemble)
    /\ pcMedoid' = "fin"
    /\ UNCHANGED ensemble
    /\ UNCHANGED <<varsReparto, varsFilas, varsLote, varsSim, varsNorm, varsSec, varsBoton>>

NextMedoid ==
    \/ MedoidVacio
    \/ MedoidElegir

SpecMedoid == InitMedoid /\ [][NextMedoid]_vars

\* Sum of the L1 distances from row i of the ensemble to all its rows
DistanciaTotal(i) ==
    LET L1(a, b) == LET RECURSIVE S(_)
                        S(k) == IF k > Len(a) THEN 0
                                ELSE (IF a[k] >= b[k] THEN a[k] - b[k]
                                      ELSE b[k] - a[k]) + S(k + 1)
                    IN  S(1)
        RECURSIVE T(_)
        T(j) == IF j > Len(ensemble) THEN 0
                ELSE L1(ensemble[i], ensemble[j]) + T(j + 1)
    IN  T(1)

\* C9: medoid of an ensemble of exactly one draw is that draw.
C9_MedoidDeUno ==
    pcMedoid = "fin" /\ Len(ensemble) = 1 => elegido = ensemble[1]

\* C9 witness: medoid has returned for a one-draw ensemble whose columns
\* differ.
C9_Witness ==
    /\ pcMedoid = "fin"
    /\ Len(ensemble) = 1
    /\ ensemble[1][1] # ensemble[1][2]
    /\ elegido = ensemble[1]

\* C10: medoid returns a row of the ensemble whose sum of L1 distances to
\* all rows is minimal over the rows.
C10_MedoidMinimo ==
    pcMedoid = "fin" =>
        \E i \in DOMAIN ensemble :
            /\ elegido = ensemble[i]
            /\ \A j \in DOMAIN ensemble : DistanciaTotal(i) <= DistanciaTotal(j)

\* C10 witness: medoid has returned for an ensemble whose rows do not all
\* have the same distance total.
C10_Witness ==
    /\ pcMedoid = "fin"
    /\ \E i, j \in DOMAIN ensemble : DistanciaTotal(i) < DistanciaTotal(j)
    /\ elegido \in {ensemble[i] : i \in DOMAIN ensemble}

\* Rows of the ensemble whose distance total is minimal
Minimos == {i \in DOMAIN ensemble :
               \A j \in DOMAIN ensemble : DistanciaTotal(i) <= DistanciaTotal(j)}

\* C11: when several draws attain the minimal distance total, medoid returns
\* the one with the smallest index.
C11_PrimerMinimo ==
    pcMedoid = "fin" =>
        \E i \in Minimos :
            /\ \A j \in Minimos : i <= j
            /\ elegido = ensemble[i]

\* C11 witness: medoid has returned for an ensemble in which two different
\* draws tie at the minimal distance total.
C11_Witness ==
    /\ pcMedoid = "fin"
    /\ \E i, j \in Minimos : ensemble[i] # ensemble[j]
    /\ elegido \in {ensemble[i] : i \in Minimos}

----------------------------------------------------------------------------
(* repartir_bancas(df) over a whole frame (utils/reglas_electorales.py) *)

\* The rows of the frame that belong to seccion s, in input order:
\* the group that df.groupby("seccion") yields for s
Grupo(d, s) == SelectSeq(d, LAMBDA r : r.seccion = s)

\* The keys of df.groupby("seccion")
ClavesDeGrupo(d) == {d[i].seccion : i \in DOMAIN d}

\* As CargosDeGrupo, reading the first row of the whole frame
CargosDePrimeraFila(d, g) == d[1].cargos

\* cargos = grupo["cargos"].iloc[0]
CargosDeGrupo(d, g) == g[1].cargos

\* grupo["votos"] of a group
VotosDeGrupo(g) == [i \in DOMAIN g |-> g[i].votos]

\* grupo[["seccion", "lista", "bancas"]] once the loop body is done
FilasDeSalida(g, b) ==
    [i \in DOMAIN g |-> [seccion |-> g[i].seccion, lista |-> g[i].lista,
                         bancas |-> b[i]]]

\* The for loop of line 7 over the keys in S, taken in ascending order, with
\* out the list built so far
RECURSIVE RecorrerGrupos(_, _, _)
RecorrerGrupos(d, S, out) ==
    IF S = {} THEN [estado |-> "ok", filas |-> out]
    ELSE LET s == CHOOSE x \in S : \A y \in S : x <= y
             g == Grupo(d, s)
             r == RepartirGrupo(VotosDeGrupo(g), CargosDeGrupo(d, g))
         IN  IF r.termina
             THEN RecorrerGrupos(d, S \ {s}, out \o FilasDeSalida(g, r.bancas))
             ELSE [estado |-> "no termina", filas |-> <<>>]

\* repartir_bancas(df).  A frame built from an empty list of rows has no
\* column "seccion" and groupby raises KeyError.
RepartirBancas(d) ==
    IF d = <<>> THEN [estado |-> "error", filas |-> <<>>]
    ELSE RecorrerGrupos(d, ClavesDeGrupo(d), <<>>)

SeccionesLote == {1, 2}

\* Frames of up to MaxFilasLote rows over two secciones, rows of the two
\* secciones interleaved in any way, the listas in ascending or in
\* descending order; every row of a seccion carries the cargos of that
\* seccion.  Votes of -1 and cargos of 0 are the invalid
\* inputs.
InitLote ==
    /\ \E n \in 0..MaxFilasLote :
       \E ss \in [1..n -> SeccionesLote] :
       \E vv \in [1..n -> (-1)..MaxVotosLote] :
       \E cc \in [SeccionesLote -> 0..MaxCargosCamara] :
       \E inv \in BOOLEAN :
          dfLote = [i \in 1..n |->
                      [seccion |-> ss[i],
                       lista |-> IF inv THEN n + 1 - i ELSE i,
                       votos |-> vv[i], cargos |-> cc[ss[i]]]]
    /\ salida = <<>>
    /\ pcLote = "inicio"
    /\ RepartoInactivo
    /\ FilasInactivo
    /\ MedoidInactivo
    /\ SimInactivo
    /\ NormInactivo
    /\ SecInactivo
    /\ BotonInactivo

\* One call repartir_bancas(df) that returns a frame
RepartirLote ==
    /\ pcLote = "inicio"
    /\ RepartirBancas(dfLote).estado = "ok"
    /\ salida' = RepartirBancas(dfLote).filas
    /\ pcLote' = "fin"
    /\ UNCHANGED dfLote
    /\ UNCHANGED <<varsReparto, varsFilas, varsMedoid, varsSim, varsNorm, varsSec, varsBoton>>

\* One call repartir_bancas(df) that raises
RepartirLoteError ==
    /\ pcLote = "inicio"
    /\ RepartirBancas(dfLote).estado = "error"
    /\ pcLote' = "error"
    /\ UNCHANGED <<dfLote, salida>>
    /\ UNCHANGED <<varsReparto, varsFilas, varsMedoid, varsSim, varsNorm, varsSec, varsBoton>>

\* One call repartir_bancas(df) that stays in the while loop of a group
RepartirLoteColgado ==
    /\ pcLote = "inicio"
    /\ RepartirBancas(dfLote).estado = "no termina"
    /\ pcLote' = "bucle"
    /\ UNCHANGED <<dfLote, salida>>
    /\ UNCHANGED <<varsReparto, varsFilas, varsMedoid, varsSim, varsNorm, varsSec, varsBoton>>

NextLote ==
    \/ RepartirLote
    \/ RepartirLoteError
    \/ RepartirLoteColgado

SpecLote == InitLote /\ [][NextLote]_vars

\* The frame breaks a precondition: no rows, a seccion with 0 cargos, or a
\* negative vote count
EntradaInvalida ==
    \/ dfLote = <<>>
    \/ \E i \in DOMAIN dfLote : dfLote[i].votos < 0
    \/ \E s \in ClavesDeGrupo(dfLote) : Grupo(dfLote, s)[1].cargos = 0

\* C14: a call with zero cargos, a negative vote count or no rows ends in an
\* error and returns no seat table.
C14_EntradaInvalidaFalla ==
    EntradaInvalida => pcLote \in {"inicio", "error"}

\* C16: the bancas returned for the rows of a seccion are the bancas
\* returned by a call with only the rows of that seccion.
C16_SeccionesIndependientes ==
    pcLote = "fin" =>
        \A s \in ClavesDeGrupo(dfLote) :
            LET solo == RepartirBancas(Grupo(dfLote, s))
            IN  /\ solo.estado = "ok"
                /\ SelectSeq(salida, LAMBDA r : r.seccion = s) = solo.filas

\* C16 witness: a frame of two secciones with different cargos and votes,
\* rows interleaved, has been apportioned.
C16_Witness ==
    /\ pcLote = "fin"
    /\ Len(dfLote) >= 3
    /\ dfLote[1].seccion # dfLote[2].seccion
    /\ dfLote[1].cargos # dfLote[2].cargos
    /\ dfLote[1].cargos > 0 /\ dfLote[2].cargos > 0
    /\ \A i \in DOMAIN dfLote : dfLote[i].votos >= 0
    /\ \E i \in DOMAIN salida : salida[i].bancas > 0 /\ salida[i].seccion = 1
    /\ \E i \in DOMAIN salida : salida[i].bancas > 0 /\ salida[i].seccion = 2

-----------------------------------------------------------------------------
(* The simulation branch of app.py (lines 663-720), with simular_eleccion  *)
(* (simulacion.py lines 10-36) taken one np.random.dirichlet call at a     *)
(* time.  A drawn vector is a point of the simplex.  It is held cut down  *)
(* to whole parts, Resolucion of them making 1: partes[j] is the whole     *)
(* part of prop[j] * Resolucion, so the parts of a draw add up to          *)
(* Resolucion or to a little less, and every point of the simplex has its  *)
(* place.  nulos holds the positions that are exactly 0.0, chicos the      *)
(* positions that can be next to nothing.  The weights of the province     *)
(* are held in thousandths (mil); P_prov * phi is held as the vector and   *)
(* the factor it is made of.                                               *)

\* ALIANZAS_VISIBLES, which build_context hands on as listas_politicas
ListasSim == <<"A", "B", "C">>

\* data['secciones_diputados'].items() and data['secciones_senadores'].items()
SeccionesDiputadosSim == << [sec |-> 1, cargos |-> 2] >>
SeccionesSenadoresSim == << [sec |-> 2, cargos |-> 1] >>

SeccionesDeCamara(c) ==
    IF c = "diputados" THEN SeccionesDiputadosSim ELSE SeccionesSenadoresSim

\* SECCIONES_X_ALIANZA for the alliances of ListasSim: "C" presents no
\* list in seccion 2
SeccionesXAlianzaSim ==
    [a \in {"A", "B", "C"} |-> IF a = "C" THEN {1} ELSE {1, 2}]

\* data['padron_real']
PadronSim == [s \in {1, 2} |-> 4]

\* participacion and votos_validos_pct, in quarters
TasaSim == [participacion |-> 2, votos_validos_pct |-> 4]

\* The defaults of the sliders "Alpha scale" and "Phi", and eps in thousandths
AlphaScale == 25
PhiHier == 50
Eps == 1

\* The sliders of the beliefs: whole percentages of at most 80 that add up
\* to 100, or the run stops at line 624
CreenciasSimPosibles == { <<25, 50, 25>>, <<50, 50, 0>> }

\* phi=None, the default of simular_eleccion, and phi=phi_hier of the app
PhiPosibles == { [definido |-> FALSE, valor |-> 0],
                 [definido |-> TRUE, valor |-> PhiHier] }

\* The parts a draw is cut down to: one for every valid vote of a seccion
Resolucion == Validos(PadronSim[1], TasaSim)

\* np.maximum(eps, creencias * alpha_scale / 100): a weight is eps or less
\* where the clamp acted
PesosDir(c) ==
    LET mil == [j \in DOMAIN c |-> Max2(Eps, c[j] * AlphaScale * 10)]
    IN  [mil |-> mil, nulos |-> {},
         chicos |-> {j \in DOMAIN c : mil[j] <= Eps}]

\* P_prov * phi: 0.0 where P_prov is, next to nothing where P_prov can be
Escalar(P, f) ==
    [partes |-> P.partes, factor |-> f, nulos |-> P.nulos,
     chicos |-> P.chicos \ P.nulos]

\* The test of np.random.dirichlet that raises ValueError: some alpha <= 0
AlfaInvalida(a) == a.nulos # {}

\* A concentration that can be eps or less
Despreciable(a, j) == j \in a.chicos

\* The points of the simplex, cut down to whole parts: each component
\* loses less than one part
ProporcionesPosibles ==
    { c \in [DOMAIN ListasSim -> 0..Resolucion] :
        /\ SumSeq(c) <= Resolucion
        /\ SumSeq(c) + Len(c) > Resolucion }

\* np.random.dirichlet(a) for a valid a: any point of the simplex, whatever
\* a.  When nothing is lost in the cut every component is a whole number
\* of parts, and one of no parts is exactly 0.0 or next to it, which only
\* a concentration of eps or less gives.
Muestras(a) ==
    { c \in ProporcionesPosibles :
        SumSeq(c) = Resolucion =>
            \A j \in DOMAIN c : c[j] = 0 => Despreciable(a, j) }

\* np.random.dirichlet(a) with the components that underflow to 0.0: a
\* component of less than one part drawn from a concentration of eps or
\* less can be next to nothing, and then it can be exactly 0.0
MuestrasConNulos(a) ==
    { P \in [partes : Muestras(a), nulos : SUBSET DOMAIN ListasSim,
             chicos : SUBSET DOMAIN ListasSim] :
        /\ P.chicos = {j \in DOMAIN ListasSim :
                          Despreciable(a, j) /\ P.partes[j] = 0}
        /\ P.nulos \subseteq P.chicos }

NingunP == [partes |-> <<>>, nulos |-> {}, chicos |-> {}]

\* As AlfaDeSeccion, every seccion drawn from the weights of the province
AlfaSinJerarquia(f, pesos, P) == pesos

\* The argument of the draw of a seccion (lines 22-25)
AlfaDeSeccion(f, pesos, P) ==
    IF f.definido THEN Escalar(P, f.valor) ELSE pesos

\* (prop * votos_validos).astype(int): the product of a double by
\* votos_validos = Resolucion = 2 is exact, and its whole part is the
\* number of parts of the draw
VotosSim(c, validos) == [j \in DOMAIN c |-> (c[j] * validos) \div Resolucion]

\* The rows lines 28-30 add for one seccion
FilasSimDeSeccion(sc, c) ==
    LET v == VotosSim(c, Validos(PadronSim[sc.sec], TasaSim))
    IN  [j \in DOMAIN ListasSim |->
            [seccion |-> sc.sec, lista |-> ListasSim[j],
             votos |-> v[j], cargos |-> sc.cargos]]

\* df.groupby("lista").bancas.sum(), reindexed by ALIANZAS_VISIBLES, fillna(0)
TotalesPorLista(f) ==
    [j \in DOMAIN ListasSim |->
        LET g == SelectSeq(f, LAMBDA r : r.lista = ListasSim[j])
        IN  SumSeq([i \in DOMAIN g |-> g[i].bancas])]

\* pd.DataFrame([... for df in sim])
Tabla(sim) == [i \in DOMAIN sim |-> TotalesPorLista(sim[i])]

\* As BuscarFila, taking the last row equal to m
BuscarFilaUltima(df, m) ==
    IF \E i \in DOMAIN df : df[i] = m
    THEN CHOOSE i \in DOMAIN df :
            /\ df[i] = m
            /\ \A j \in DOMAIN df : j > i => df[j] # m
    ELSE 1

\* As BuscarFila, with any() in place of all()
BuscarFilaAlguna(df, m) ==
    IF \E i \in DOMAIN df : \E c \in DOMAIN m : df[i][c] = m[c]
    THEN CHOOSE i \in DOMAIN df :
            /\ \E c \in DOMAIN m : df[i][c] = m[c]
            /\ \A j \in DOMAIN df : j < i => \A c \in DOMAIN m : df[j][c] # m[c]
    ELSE 1

\* df.reset_index(drop=True).apply(lambda row: (row == m).all(), axis=1)
\* .idxmax(): the first row equal to m, the first row when none is
BuscarFila(df, m) ==
    IF \E i \in DOMAIN df : df[i] = m
    THEN CHOOSE i \in DOMAIN df :
            /\ df[i] = m
            /\ \A j \in DOMAIN df : j < i => df[j] # m
    ELSE 1

\* BANCAS_NO_RENUEVAN: for each chamber, the seats not renewed of each
\* seccion
NoRenuevanApp ==
    [diputados |-> << [a \in {"A"} |-> 1], [a \in {"B", "C"} |-> 2] >>,
     senadores |-> << [a \in {"C"} |-> 1] >>]

\* sumar_no_renovados(nuevas, no_renuevan) (lines 113-119)
SumarNoRenovados(nuevas, nr) ==
    LET todas == DOMAIN nuevas \cup UNION {DOMAIN nr[k] : k \in DOMAIN nr}
    IN  [a \in todas |->
            (IF a \in DOMAIN nuevas THEN nuevas[a] ELSE 0)
            + SumSeq([k \in DOMAIN nr |-> IF a \in DOMAIN nr[k] THEN nr[k][a] ELSE 0])]

\* A column of the table, in ascending order
ColumnaOrdenada(df, j) ==
    LET x == [i \in DOMAIN df |-> df[i][j]]
        puesto(i) == Cardinality({k \in DOMAIN x :
                        x[k] < x[i] \/ (x[k] = x[i] /\ k < i)})
    IN  [k \in DOMAIN x |-> x[CHOOSE i \in DOMAIN x : puesto(i) = k - 1]]

\* df.mean().round(2) of a column, in hundredths: the mean is the double
\* sum / n, and round(2) takes 100 times it, a double again, to the nearest
\* whole number, the even one of two equally near
\* The means are worked out once, for the tables of n rows, n up to
\* MaxSim, and the sums a column can have: a row holds no more than the
\* seats of the two chambers
MediasRedondeadas ==
    LET c(sec) == SumSeq([k \in DOMAIN sec |-> sec[k].cargos])
        tope == c(SeccionesDiputadosSim) + c(SeccionesSenadoresSim)
    IN  [n \in 1..MaxSim |->
            [suma \in 0..(n * tope) |-> Rint(Por(Cociente(suma, n), 100))]]

MediaDe(df, j) ==
    MediasRedondeadas[Len(df)][SumSeq([i \in DOMAIN df |-> df[i][j]])]

\* df.quantile(centil / 100).round(2) of a column, in hundredths: the
\* linear interpolation between the two values next to the place
\* (n - 1) * centil / 100
CuantilDe(df, j, centil) ==
    LET x == ColumnaOrdenada(df, j)
        h == centil * (Len(x) - 1)
        k == h \div 100
        g == h % 100
    IN  IF g = 0 THEN 100 * x[k + 1]
        ELSE 100 * x[k + 1] + g * (x[k + 2] - x[k + 1])

\* resumen(df) (simulacion.py lines 49-56), a row for every list
Resumen(df) ==
    LET m == Medoid(df)
    IN  [j \in DOMAIN ListasSim |->
            [Media |-> MediaDe(df, j), P5 |-> CuantilDe(df, j, 5),
             P95 |-> CuantilDe(df, j, 95), Bancas |-> 100 * m[j]]]

\* A Series indexed by ALIANZAS_VISIBLES as a mapping
SeriePorLista(x) ==
    [a \in {ListasSim[j] : j \in DOMAIN ListasSim} |->
        x[CHOOSE j \in DOMAIN ListasSim : ListasSim[j] = a]]

\* The dict lines 710-720 store
ResultadosSimulacion(r) ==
    [dip_final |-> SumarNoRenovados(SeriePorLista(r.dip_medoid),
                                    NoRenuevanApp.diputados),
     sen_final |-> SumarNoRenovados(SeriePorLista(r.sen_medoid),
                                    NoRenuevanApp.senadores),
     modo |-> "simulacion",
     tablas |-> <<Resumen(r.dip_df), Resumen(r.sen_df)>>,
     distribuciones |-> <<r.dip_df, r.sen_df>>,
     dip_nuevas |-> r.dip_nuevas,
     sen_nuevas |-> r.sen_nuevas,
     participacion |-> TasaSim.participacion,
     votos_validos_pct |-> TasaSim.votos_validos_pct]

\* The sliders and the phi of a run: phi=phi_hier as app.py line 674 passes
\* it, and phi=None, which only a direct call of simular_eleccion has, with
\* sliders that are all positive
EntradasSim ==
    { e \in [creencias : CreenciasSimPosibles, phi : PhiPosibles] :
        e.phi.definido \/ \A j \in DOMAIN e.creencias : e.creencias[j] > 0 }

\* The runs whose sliders are all positive
EntradasSimPositivas ==
    { e \in EntradasSim : \A j \in DOMAIN e.creencias : e.creencias[j] > 0 }

\* The state at the press of the button but for the sliders and phi
InicioSim ==
    /\ pesosDir = <<>>
    /\ iSim = 0
    /\ dipSim = <<>>
    /\ senSim = <<>>
    /\ pcSim = "inicio"
    /\ PProv = NingunP
    /\ camara = ""
    /\ kSec = 0
    /\ filasSim = <<>>
    /\ dipActual = <<>>
    /\ sorteos = <<>>
    /\ resultados = <<>>
    /\ RepartoInactivo
    /\ FilasInactivo
    /\ MedoidInactivo
    /\ LoteInactivo
    /\ NormInactivo
    /\ SecInactivo
    /\ BotonInactivo

\* The state at the press of the button, simulation mode chosen
InitSim ==
    /\ \E e \in EntradasSim : creenciasSim = e.creencias /\ phi = e.phi
    /\ nSim = MaxSim
    /\ InicioSim

\* The same with sliders that are all positive
InitSimPositivas ==
    /\ \E e \in EntradasSimPositivas : creenciasSim = e.creencias /\ phi = e.phi
    /\ nSim = MaxSim
    /\ InicioSim

\* app.py lines 663-669: the weights, clamped at eps, and the empty lists
SimPreparar ==
    /\ pcSim = "inicio"
    /\ pesosDir' = PesosDir(creenciasSim)
    /\ pcSim' = "bucle"
    /\ UNCHANGED <<creenciasSim, phi, nSim, iSim, dipSim, senSim, PProv, camara,
                   kSec, filasSim, dipActual, sorteos, resultados>>
    /\ UNCHANGED <<varsReparto, varsFilas, varsMedoid, varsLote, varsNorm, varsSec, varsBoton>>

\* app.py lines 673-674 and simulacion.py lines 13-14: the next call of
\* simular_eleccion, which draws P_prov when phi is given
SimLlamar ==
    /\ pcSim = "bucle"
    /\ iSim < nSim
    /\ IF phi.definido
       THEN \E P \in MuestrasConNulos(pesosDir) :
               /\ PProv' = P
               /\ sorteos' = << [nivel |-> "provincia", alfa |-> pesosDir] >>
       ELSE /\ PProv' = NingunP
            /\ sorteos' = <<>>
    /\ camara' = "diputados"
    /\ kSec' = 1
    /\ filasSim' = <<>>
    /\ dipActual' = <<>>
    /\ pcSim' = "secciones"
    /\ llamadas' = Append(llamadas, "simular_eleccion")
    /\ UNCHANGED <<creenciasSim, phi, nSim, pesosDir, iSim, dipSim, senSim, resultados>>
    /\ UNCHANGED <<creenciasGlobal, esDeterministico, cfgSeccion, creenciasSecApp,
                   sesion, corridas, pcBoton>>
    /\ UNCHANGED <<varsReparto, varsFilas, varsMedoid, varsLote, varsNorm, varsSec>>

\* simulacion.py lines 18-30: one turn of the loop over the secciones
SimSeccion ==
    /\ pcSim = "secciones"
    /\ kSec <= Len(SeccionesDeCamara(camara))
    /\ LET a == AlfaDeSeccion(phi, pesosDir, PProv)
       IN  /\ ~AlfaInvalida(a)
           /\ \E c \in Muestras(a) :
                 filasSim' = filasSim \o
                     FilasSimDeSeccion(SeccionesDeCamara(camara)[kSec], c)
           /\ sorteos' = Append(sorteos, [nivel |-> "seccion", alfa |-> a])
    /\ kSec' = kSec + 1
    /\ UNCHANGED <<creenciasSim, phi, nSim, pesosDir, iSim, dipSim, senSim, pcSim,
                   PProv, camara, dipActual, resultados>>
    /\ UNCHANGED <<varsReparto, varsFilas, varsMedoid, varsLote, varsNorm, varsSec, varsBoton>>

\* simulacion.py line 25 when a component of P_prov * phi is 0.0:
\* np.random.dirichlet raises ValueError, which nothing catches
SimSeccionFalla ==
    /\ pcSim = "secciones"
    /\ kSec <= Len(SeccionesDeCamara(camara))
    /\ AlfaInvalida(AlfaDeSeccion(phi, pesosDir, PProv))
    /\ pcSim' = "ValueError"
    /\ UNCHANGED <<creenciasSim, phi, nSim, pesosDir, iSim, dipSim, senSim, PProv,
                   camara, kSec, filasSim, dipActual, sorteos, resultados>>
    /\ UNCHANGED <<varsReparto, varsFilas, varsMedoid, varsLote, varsNorm, varsSec, varsBoton>>

\* simulacion.py lines 31-32 and 34: the seats of diputados
SimRepartirDiputados ==
    /\ pcSim = "secciones"
    /\ camara = "diputados"
    /\ kSec > Len(SeccionesDeCamara(camara))
    /\ LET r == RepartirBancas(filasSim)
       IN  /\ r.estado = "ok"
           /\ dipActual' = r.filas
    /\ camara' = "senadores"
    /\ kSec' = 1
    /\ filasSim' = <<>>
    /\ UNCHANGED <<creenciasSim, phi, nSim, pesosDir, iSim, dipSim, senSim, pcSim,
                   PProv, sorteos, resultados>>
    /\ UNCHANGED <<varsReparto, varsFilas, varsMedoid, varsLote, varsNorm, varsSec, varsBoton>>

\* simulacion.py line 32 when repartir_bancas never returns: the votes of
\* a seccion are all 0 and the loop that hands out the seats left over
\* goes on for ever
SimColgado ==
    /\ pcSim = "secciones"
    /\ kSec > Len(SeccionesDeCamara(camara))
    /\ RepartirBancas(filasSim).estado = "no termina"
    /\ pcSim' = "no termina"
    /\ UNCHANGED <<creenciasSim, phi, nSim, pesosDir, iSim, dipSim, senSim, PProv,
                   camara, kSec, filasSim, dipActual, sorteos, resultados>>
    /\ UNCHANGED <<varsReparto, varsFilas, varsMedoid, varsLote, varsNorm, varsSec, varsBoton>>

\* simulacion.py lines 31-32 and 35-36, app.py lines 675-676: the seats of
\* senadores, the return and the two appends
SimRepartirSenadores ==
    /\ pcSim = "secciones"
    /\ camara = "senadores"
    /\ kSec > Len(SeccionesDeCamara(camara))
    /\ LET r == RepartirBancas(filasSim)
       IN  /\ r.estado = "ok"
           /\ dipSim' = Append(dipSim, dipActual)
           /\ senSim' = Append(senSim, r.filas)
    /\ iSim' = iSim + 1
    /\ pcSim' = "bucle"
    /\ UNCHANGED <<creenciasSim, phi, nSim, pesosDir, PProv, camara, kSec, filasSim,
                   dipActual, sorteos, resultados>>
    /\ UNCHANGED <<varsReparto, varsFilas, varsMedoid, varsLote, varsNorm, varsSec, varsBoton>>

\* app.py lines 683-720, after the loop: the tables, the medoids, the
\* draws they come from, and the store in st.session_state.resultados
SimResumir ==
    /\ pcSim = "bucle"
    /\ iSim = nSim
    /\ LET dip_df == Tabla(dipSim)
           sen_df == Tabla(senSim)
           dip_medoid == Medoid(dip_df)
           sen_medoid == Medoid(sen_df)
           idx_dip == BuscarFila(dip_df, dip_medoid)
           idx_sen == BuscarFila(sen_df, sen_medoid)
       IN  /\ resultados' = [dip_df |-> dip_df, sen_df |-> sen_df,
                             dip_medoid |-> dip_medoid, sen_medoid |-> sen_medoid,
                             idx_medoid_dip |-> idx_dip, idx_medoid_sen |-> idx_sen,
                             dip_nuevas |-> dipSim[idx_dip],
                             sen_nuevas |-> senSim[idx_sen]]
           /\ sesion' = ResultadosSimulacion(resultados')
    /\ pcSim' = "fin"
    /\ UNCHANGED <<creenciasSim, phi, nSim, pesosDir, iSim, dipSim, senSim, PProv,
                   camara, kSec, filasSim, dipActual, sorteos>>
    /\ UNCHANGED <<creenciasGlobal, esDeterministico, cfgSeccion, creenciasSecApp,
                   llamadas, corridas, pcBoton>>
    /\ UNCHANGED <<varsReparto, varsFilas, varsMedoid, varsLote, varsNorm, varsSec>>

NextSim ==
    \/ SimPreparar
    \/ SimLlamar
    \/ SimSeccion
    \/ SimSeccionFalla
    \/ SimRepartirDiputados
    \/ SimColgado
    \/ SimRepartirSenadores
    \/ SimResumir

SpecSim == InitSim /\ [][NextSim]_vars

\* With sliders that are all positive no weight is eps or less, no
\* component of P_prov is 0.0 and np.random.dirichlet never raises
NextSimPositivas ==
    \/ SimPreparar
    \/ SimLlamar
    \/ SimSeccion
    \/ SimRepartirDiputados
    \/ SimColgado
    \/ SimRepartirSenadores
    \/ SimResumir

SpecSimPositivas == InitSimPositivas /\ [][NextSimPositivas]_vars

\* The draws of the running call made for the province and for a seccion
SorteosProvincia == SelectSeq(sorteos, LAMBDA e : e.nivel = "provincia")
SorteosSeccion == SelectSeq(sorteos, LAMBDA e : e.nivel = "seccion")

\* C13: with phi given, the province vector P is drawn exactly once, before
\* any draw of a seccion, and every draw of a seccion, in both chambers,
\* takes P * phi as its concentrations; with phi=None nothing is drawn for
\* the province and every seccion is drawn from the weights
C13_SorteoJerarquico ==
    pcSim \in {"secciones", "bucle", "fin", "ValueError"} /\ iSim + Len(sorteos) > 0 =>
        IF phi.definido
        THEN /\ Len(sorteos) >= 1
             /\ sorteos[1] = [nivel |-> "provincia", alfa |-> pesosDir]
             /\ Len(SorteosProvincia) = 1
             /\ PProv \in MuestrasConNulos(pesosDir)
             /\ \A n \in 2..Len(sorteos) :
                   sorteos[n] = [nivel |-> "seccion",
                                 alfa |-> Escalar(PProv, phi.valor)]
        ELSE /\ SorteosProvincia = <<>>
             /\ \A n \in DOMAIN sorteos :
                   sorteos[n] = [nivel |-> "seccion", alfa |-> pesosDir]

C13_Witness ==
    /\ phi.definido
    /\ camara = "senadores"
    /\ Len(SorteosSeccion) = Len(SeccionesDiputadosSim) + Len(SeccionesSenadoresSim)
    /\ Escalar(PProv, phi.valor) # pesosDir
    /\ iSim >= 1

\* Some weight handed to the simulation is not positive before the clamp
PesosNoPositivos == \E j \in DOMAIN creenciasSim : creenciasSim[j] * AlphaScale <= 0

\* C15: weights that are not positive are rejected before the loop starts,
\* so no draw is made with them, and no call fails after draws were stored
C15_RechazoPrevio ==
    /\ PesosNoPositivos => sorteos = <<>> /\ dipSim = <<>> /\ senSim = <<>>
    /\ pcSim = "ValueError" => dipSim = <<>> /\ senSim = <<>>

\* Total of the cargos of a chamber
CargosDeCamara(c) ==
    SumSeq([n \in DOMAIN SeccionesDeCamara(c) |-> SeccionesDeCamara(c)[n].cargos])

\* C17: the seats of the medoid of a chamber add up to the cargos of all
\* the secciones of that chamber
C17_MedoidSumaCargos ==
    pcSim = "fin" =>
        /\ SumSeq(resultados.dip_medoid) = CargosDeCamara("diputados")
        /\ SumSeq(resultados.sen_medoid) = CargosDeCamara("senadores")

C17_Witness ==
    /\ pcSim = "fin"
    /\ \E i, j \in DOMAIN dipSim :
          /\ resultados.dip_df[i] # resultados.dip_df[j]
          /\ resultados.dip_df[i] # resultados.dip_medoid
          /\ resultados.dip_df[j] # resultados.dip_medoid
    /\ resultados.sen_df[1] # resultados.sen_medoid

\* C18 as written: dip_nuevas and sen_nuevas are the two results of one
\* and the same call of simular_eleccion
C18_Original ==
    pcSim = "fin" =>
        \E n \in DOMAIN dipSim :
            /\ resultados.dip_nuevas = dipSim[n]
            /\ resultados.sen_nuevas = senSim[n]

\* The first draw of a chamber whose totals by list are the medoid
PrimerSorteoIgual(sim, m) ==
    CHOOSE n \in DOMAIN sim :
        /\ TotalesPorLista(sim[n]) = m
        /\ \A k \in DOMAIN sim : k < n => TotalesPorLista(sim[k]) # m

\* C18: dip_nuevas is the diputados result of the first draw whose totals
\* equal the medoid of diputados, sen_nuevas the senadores result of the
\* first draw whose totals equal the medoid of senadores; each index is
\* found on its own
C18_IndicePorCamara ==
    pcSim = "fin" =>
        /\ resultados.idx_medoid_dip = PrimerSorteoIgual(dipSim, resultados.dip_medoid)
        /\ resultados.idx_medoid_sen = PrimerSorteoIgual(senSim, resultados.sen_medoid)
        /\ resultados.dip_nuevas = dipSim[resultados.idx_medoid_dip]
        /\ resultados.sen_nuevas = senSim[resultados.idx_medoid_sen]

C18_Witness ==
    /\ pcSim = "fin"
    /\ resultados.idx_medoid_dip # resultados.idx_medoid_sen
    /\ \E n \in DOMAIN dipSim :
          n > resultados.idx_medoid_dip /\ resultados.dip_df[n] = resultados.dip_medoid

\* C19: the rows kept for a chamber, added up by list, are the medoid
C19_FilasDelMedoid ==
    pcSim = "fin" =>
        /\ TotalesPorLista(resultados.dip_nuevas) = resultados.dip_medoid
        /\ TotalesPorLista(resultados.sen_nuevas) = resultados.sen_medoid

C19_Witness ==
    /\ pcSim = "fin"
    /\ resultados.idx_medoid_dip > 1
    /\ resultados.dip_nuevas # dipSim[1]
    /\ TotalesPorLista(dipSim[1]) # resultados.dip_medoid

-----------------------------------------------------------------------------
(* _normalizar_creencias_para_seccion (calculos.py lines 59-92).  The   *)
(* beliefs are whole numbers, as the sliders give them, and a value of the *)
(* mapping returned is the double 100 * v / total.                         *)

RECURSIVE SumaDe(_, _)
SumaDe(f, S) ==
    IF S = {} THEN 0
    ELSE LET a == CHOOSE x \in S : TRUE IN f[a] + SumaDe(f, S \ {a})

\* The keys of alianzas_validas (lines 85-88)
AlianzasValidas(c, s, sxa) ==
    {a \in DOMAIN c : a \in DOMAIN sxa /\ s \in sxa[a]}

\* Lines 85-92
NormalizarCreenciasParaSeccion(c, s, sxa) ==
    LET validas == AlianzasValidas(c, s, sxa)
        total == SumaDe(c, validas)
    IN  IF total = 0 THEN <<>>
        ELSE [a \in validas |-> Cociente(100 * c[a], total)]

AlianzasNorm == {"A", "B", "C"}
SeccionesNorm == {1, 2}

InitNorm ==
    /\ \E K \in SUBSET AlianzasNorm : creenciasNorm \in [K -> 0..MaxCreencia]
    /\ seccionNorm \in SeccionesNorm
    /\ \E K \in SUBSET AlianzasNorm :
          seccionesXAlianza \in [K -> SUBSET SeccionesNorm]
    /\ normalizadas = <<>>
    /\ pcNorm = "inicio"
    /\ RepartoInactivo
    /\ FilasInactivo
    /\ MedoidInactivo
    /\ LoteInactivo
    /\ SimInactivo
    /\ SecInactivo
    /\ BotonInactivo

Normalizar ==
    /\ pcNorm = "inicio"
    /\ normalizadas' = NormalizarCreenciasParaSeccion(creenciasNorm, seccionNorm,
                                                      seccionesXAlianza)
    /\ pcNorm' = "fin"
    /\ UNCHANGED <<creenciasNorm, seccionNorm, seccionesXAlianza>>
    /\ UNCHANGED <<varsReparto, varsFilas, varsMedoid, varsLote, varsSim, varsSec, varsBoton>>

NextNorm == Normalizar

SpecNorm == InitNorm /\ [][NextNorm]_vars

\* The alliances of the belief vector that compete in the seccion
Compiten ==
    {a \in DOMAIN creenciasNorm :
        a \in DOMAIN seccionesXAlianza /\ seccionNorm \in seccionesXAlianza[a]}

\* The orders the alliances S can stand in within the belief vector
OrdenesDe(S) ==
    {o \in [1..Cardinality(S) -> S] : \A a \in S : \E k \in DOMAIN o : o[k] = a}

\* sum(f.values()) for the values in the order o: 0 + f[o[1]] + f[o[2]] ...
RECURSIVE SumaEnOrden(_, _, _)
SumaEnOrden(f, o, n) ==
    IF n = 0 THEN Cero ELSE Suma(SumaEnOrden(f, o, n - 1), f[o[n]])

\* The double 100.0
Cien == Cociente(100, 1)

\* C20: the mapping returned has exactly the competing alliances of the
\* belief vector as keys when their percentages add up to a non-zero total,
\* its values are the percentages 100 * v / total of their beliefs, so
\* proportional to them, and add up to 100 in the order the vector holds
\* them, and it is empty when no alliance competes or the percentages add up
\* to zero
C20_Normalizacion ==
    pcNorm = "fin" =>
        IF Compiten = {} \/ SumaDe(creenciasNorm, Compiten) = 0
        THEN DOMAIN normalizadas = {}
        ELSE /\ DOMAIN normalizadas = Compiten
             /\ \A a \in Compiten :
                   normalizadas[a]
                     = Cociente(100 * creenciasNorm[a], SumaDe(creenciasNorm, Compiten))
             /\ \A o \in OrdenesDe(Compiten) :
                   SumaEnOrden(normalizadas, o, Len(o)) = Cien

-----------------------------------------------------------------------------
(* Further properties of repartir_bancas, on the step machine *)

\* C24: inside the Art. 110 loop, a pass that finds faltan < 0 leaves, after
\* its removal step, bancas that sum to cargos, and "Paso 5" then never has
\* to apply a negative difference
C24_QuitaDejaExacto ==
    /\ art110 /\ pc = "mientras" /\ faltan < 0 => SumSeq(bancas) = cargos
    /\ art110 /\ pc = "fin" => faltan >= 0

\* The first row holding the largest votos
MasVotada ==
    CHOOSE i \in Listas :
        /\ \A j \in Listas : votos[j] <= votos[i]
        /\ \A j \in Listas : j < i => votos[j] < votos[i]

\* C25: "Paso 5" adds the whole difference cargos - sum(bancas) to the first
\* row holding the largest votos and leaves every other row as it was
C25_SoloLaMasVotada ==
    pc = "fin" =>
        /\ faltan = cargos - SumSeq(previo)
        /\ bancas[MasVotada] = previo[MasVotada] + faltan
        /\ \A i \in Listas : i # MasVotada => bancas[i] = previo[i]

C25_Witness ==
    /\ pc = "fin"
    /\ faltan # 0
    /\ \E i, j \in Listas : i # j /\ votos[i] = votos[j] /\ i = MasVotada
    /\ \E i \in Listas : i # MasVotada /\ previo[i] > 0

\* The rows holding a whole cuociente, and the place of row i among them in
\* the order residuo descending, then votos descending, then input order
ConEntero == {i \in Listas : enteros[i] >= 1}

LugarEnRestos(i) ==
    Cardinality({j \in ConEntero :
        \/ residuo[j] > residuo[i]
        \/ residuo[j] = residuo[i] /\ votos[j] > votos[i]
        \/ residuo[j] = residuo[i] /\ votos[j] = votos[i] /\ j < i})

Min2(a, b) == IF a <= b THEN a ELSE b

\* C26: in the remainder step with faltan > 0 every row gains at most one
\* seat, the rows that gain one are exactly the first
\* min(faltan, number of rows with enteros >= 1) rows with enteros >= 1 in
\* the order residuo descending, votos descending, input order, and what
\* could not be handed out is the difference "Paso 5" then finds
C26_RestosEnOrden ==
    /\ pc = "completar" /\ ~art110 /\ faltan > 0 =>
          /\ \A i \in Listas : bancas[i] - enteros[i] \in {0, 1}
          /\ {i \in Listas : bancas[i] = enteros[i] + 1}
               = {i \in ConEntero :
                     LugarEnRestos(i) < Min2(faltan, Cardinality(ConEntero))}
          /\ cargos - SumSeq(bancas) = faltan - Min2(faltan, Cardinality(ConEntero))
    /\ pc = "fin" /\ ~art110 /\ cargos - SumSeq(enteros) > 0 =>
          faltan = cargos - SumSeq(enteros)
                     - Min2(cargos - SumSeq(enteros), Cardinality(ConEntero))

C26_Witness ==
    /\ pc = "completar" /\ ~art110
    /\ faltan >= 1
    /\ faltan < Cardinality(ConEntero)
    /\ \E i, j \in ConEntero :
          /\ residuo[i] = residuo[j] /\ votos[i] = votos[j] /\ i < j
          /\ bancas[i] = enteros[i] + 1
          /\ bancas[j] = enteros[j]
    /\ \E i, j \in ConEntero : residuo[i] > residuo[j]

\* C27: with cargos >= 1 and some positive votos, the Art. 110 loop, once
\* entered, is left after finitely many halvings with at least one seat
\* assigned; q is at least 1 at every pass and the removal step never
\* brings the total back to zero
C27_Art110Termina ==
    /\ [](art110 /\ pc \in {"mientras", "cuerpo"} => q >= 1)
    /\ [](art110 /\ pc = "mientras" /\ faltan < 0 /\ ~SinVotos
              => SumSeq(bancas) >= 1)
    /\ (art110 /\ cargos >= 1 /\ ~SinVotos)
          ~> (pc \in {"completar", "fin"} /\ SumSeq(bancas) >= 1)

C27_Witness ==
    /\ art110
    /\ pc = "completar"
    /\ q < cuociente \div 2
    /\ SumSeq(enteros) > cargos
    /\ SumSeq(bancas) >= 1

\* C28: with cuociente = max(1, total // cargos) the enteros of the first
\* pass never sum to more than cargos, so faltan < 0 is found only inside
\* the Art. 110 loop
C28_SinExcesoInicial ==
    /\ pc = "restos" => SumSeq(enteros) <= cargos
    /\ faltan < 0 => art110

-----------------------------------------------------------------------------
(* utils/cuociente.py: repartir_bancas, translated from that file on its   *)
(* own                                                                     *)

\* Position of row i of the rows in E when they are sorted by
\* ["residuo", "votos"], descending or ascending (lines 22-23, 41-42, 48-49)
PuestoCuociente(E, res, v, i, desc) ==
    Cardinality({j \in E :
        \/ IF desc THEN res[j] > res[i] ELSE res[j] < res[i]
        \/ res[j] = res[i] /\ (IF desc THEN v[j] > v[i] ELSE v[j] < v[i])
        \/ res[j] = res[i] /\ v[j] = v[i] /\ j < i})

\* Lines 12-25 with divisor d, and lines 32-51 when enBucle
PasadaCuociente(v, c, d, enBucle) ==
    LET ent == [i \in DOMAIN v |-> v[i] \div d]
        res == [i \in DOMAIN v |-> v[i] % d]
        f   == c - SumSeq(ent)
        mas == {i \in DOMAIN v : ent[i] > 0}
        \* grupo["bancas"] > 0, bancas being enteros when line 46 reads it
        con == {i \in DOMAIN v : ent[i] > 0}
    IN  IF f > 0
        THEN [i \in DOMAIN v |->
                IF i \in mas /\ PuestoCuociente(mas, res, v, i, TRUE) < f
                THEN ent[i] + 1 ELSE ent[i]]
        ELSE IF f < 0 /\ enBucle
        THEN [i \in DOMAIN v |->
                IF i \in con /\ PuestoCuociente(con, res, v, i, FALSE) < -f
                THEN ent[i] - 1 ELSE ent[i]]
        ELSE ent

\* The while loop of lines 30-51
RECURSIVE MientrasCuociente(_, _, _)
MientrasCuociente(v, c, d) ==
    LET d2 == IF d \div 2 >= 1 THEN d \div 2 ELSE 1
        b  == PasadaCuociente(v, c, d2, TRUE)
    IN  IF SumSeq(b) # 0 THEN [termina |-> TRUE, bancas |-> b]
        ELSE IF d2 = d THEN [termina |-> FALSE, bancas |-> <<>>]
        ELSE MientrasCuociente(v, c, d2)

\* Lines 54-57
TopeCuociente(v, b, c) ==
    LET f   == c - SumSeq(b)
        top == CHOOSE i \in DOMAIN v :
                  /\ \A j \in DOMAIN v : v[j] <= v[i]
                  /\ \A j \in DOMAIN v : j < i => v[j] < v[i]
    IN  [i \in DOMAIN v |-> IF i = top THEN b[i] + f ELSE b[i]]

\* The body of the for loop (lines 7-57) for one group
GrupoCuociente(v, c) ==
    LET total == SumSeq(v)
        coc   == IF c = 0 THEN 0 ELSE total \div c
        q0    == IF coc >= 1 THEN coc ELSE 1
        b1    == PasadaCuociente(v, c, q0, FALSE)
        r     == IF SumSeq(b1) = 0 THEN MientrasCuociente(v, c, q0)
                 ELSE [termina |-> TRUE, bancas |-> b1]
    IN  IF r.termina
        THEN [termina |-> TRUE, bancas |-> TopeCuociente(v, r.bancas, c)]
        ELSE r

\* .sort_values(["seccion", "lista"]).reset_index(drop=True) (lines 62-66)
OrdenarCuociente(f) ==
    LET puesto(i) ==
            Cardinality({j \in DOMAIN f :
                \/ f[j].seccion < f[i].seccion
                \/ f[j].seccion = f[i].seccion /\ f[j].lista < f[i].lista
                \/ f[j].seccion = f[i].seccion /\ f[j].lista = f[i].lista /\ j < i})
    IN  [k \in DOMAIN f |-> f[CHOOSE i \in DOMAIN f : puesto(i) = k - 1]]

\* The for loop of line 6 over the keys in S, in ascending order
RECURSIVE RecorrerCuociente(_, _, _)
RecorrerCuociente(d, S, out) ==
    IF S = {} THEN [estado |-> "ok", filas |-> OrdenarCuociente(out)]
    ELSE LET s == CHOOSE x \in S : \A y \in S : x <= y
             g == SelectSeq(d, LAMBDA r : r.seccion = s)
             r == GrupoCuociente([i \in DOMAIN g |-> g[i].votos], g[1].cargos)
         IN  IF r.termina
             THEN RecorrerCuociente(d, S \ {s},
                     out \o [i \in DOMAIN g |->
                               [seccion |-> g[i].seccion, lista |-> g[i].lista,
                                bancas |-> r.bancas[i]]])
             ELSE [estado |-> "no termina", filas |-> <<>>]

\* utils.cuociente.repartir_bancas(df)
RepartirBancasCuociente(d) ==
    IF d = <<>> THEN [estado |-> "error", filas |-> <<>>]
    ELSE RecorrerCuociente(d, {d[i].seccion : i \in DOMAIN d}, <<>>)

\* The names of the lists in the order Python gives strings
OrdenListas == <<"A", "B", "C", "Ninguna">>

LugarDeLista(l) == CHOOSE k \in DOMAIN OrdenListas : OrdenListas[k] = l

\* utils.cuociente.repartir_bancas(df) on a frame whose lists are names:
\* the sort of lines 62-66 compares them as strings
RepartirBancasNombres(d) ==
    LET r == RepartirBancasCuociente(
                 [i \in DOMAIN d |-> [d[i] EXCEPT !.lista = LugarDeLista(@)]])
    IN  [estado |-> r.estado,
         filas |-> [i \in DOMAIN r.filas |->
                      [r.filas[i] EXCEPT !.lista = OrdenListas[@]]]]

\* C29: on every frame for which both return, utils.cuociente.repartir_bancas
\* and utils.reglas_electorales.repartir_bancas give every (seccion, lista)
\* the same bancas, and the former returns the rows of the latter sorted by
\* (seccion, lista)
C29_MismasBancas ==
    pcLote = "fin" =>
        LET r == RepartirBancasCuociente(dfLote)
        IN  /\ r.estado = "ok"
            /\ Len(r.filas) = Len(salida)
            /\ \A i \in DOMAIN salida : \E k \in DOMAIN r.filas : r.filas[k] = salida[i]
            /\ \A k \in DOMAIN r.filas : \E i \in DOMAIN salida : r.filas[k] = salida[i]
            /\ \A k \in DOMAIN r.filas : k > 1 =>
                  \/ r.filas[k - 1].seccion < r.filas[k].seccion
                  \/ /\ r.filas[k - 1].seccion = r.filas[k].seccion
                     /\ r.filas[k - 1].lista < r.filas[k].lista

C29_Witness ==
    /\ pcLote = "fin"
    /\ Len(salida) >= 3
    /\ RepartirBancasCuociente(dfLote).filas # salida
    /\ \E i \in DOMAIN salida : salida[i].bancas < 0
    /\ \E i \in DOMAIN salida : salida[i].bancas > 0

-----------------------------------------------------------------------------
(* Further properties of _generar_filas_para_camara *)

\* floor(electorate * turnout * validRate) of the i-th seccion, the rates
\* being held in quarters
VotosValidosDe(i) ==
    LET p == padron[i] * tasas.participacion * tasas.votos_validos_pct
    IN  CHOOSE n \in 0..p : 16 * n <= p /\ p < 16 * (n + 1)

\* The rows materialized for the lists of the i-th seccion
FilasDeListas(i) ==
    SelectSeq(filas, LAMBDA r : r.seccion = secciones[i].seccion
                                  /\ r.lista # "Ninguna")

\* The percentage 100 * v / total that the double d was taken from
PorcentajeDe(d) == CHOOSE p \in PorcentajesPosibles : DobleDe[p] = d

\* C21: every row of a seccion holds floor(validVotes * pct / 100) votes,
\* pct being the percentage 100 * v / total of the list, which is not
\* negative, and the votes of the rows of the seccion add up to at most
\* validVotes
C21_VotosTruncados ==
    pcFilas = "fin" =>
        \A i \in DOMAIN secciones :
            LET V == VotosValidosDe(i)
                f == FilasDeListas(i)
            IN  /\ Len(f) = Len(creencias[i])
                /\ \A k \in DOMAIN f :
                      LET pct == PorcentajeDe(creencias[i][k].pct)
                      IN  /\ f[k].lista = creencias[i][k].alianza
                          /\ f[k].votos >= 0
                          /\ 100 * pct.den * f[k].votos <= V * pct.num
                          /\ V * pct.num < 100 * pct.den * (f[k].votos + 1)
                /\ SumSeq([k \in DOMAIN f |-> f[k].votos]) <= V

-----------------------------------------------------------------------------
(* calcular_determinista_por_seccion (calculos.py lines 147-201).  The     *)
(* secciones are numbered from 1 and the key "global" of                   *)
(* creencias_por_seccion is written ClaveGlobal.                            *)

ClaveGlobal == 0

\* The alliances of a belief vector, in the order of the dict
AlianzasSec == <<"A", "B">>

\* secciones_diputados, secciones_senadores and padron_real
SeccionesDiputadosSec == << [seccion |-> 1, cargos |-> 2], [seccion |-> 2, cargos |-> 1] >>
SeccionesSenadoresSec == << [seccion |-> 3, cargos |-> 2] >>
PadronSec == [s \in {1, 2, 3} |-> IF s = 2 THEN 37 ELSE 10]
TasaSec == [participacion |-> 4, votos_validos_pct |-> 4]

\* A belief vector
Vector(x, y) == [a \in {"A", "B"} |-> IF a = "A" THEN x ELSE y]

\* The belief vectors a key can hold
VectoresSec == { Vector(50, 50), Vector(25, 75), Vector(100, 0), Vector(0, 50) }

\* The items of the mapping _normalizar_creencias_para_seccion returns, in
\* the order of the dict
ItemsNormalizados(base, s, sxa) ==
    LET n == NormalizarCreenciasParaSeccion(base, s, sxa)
        orden == SelectSeq(ListasSim, LAMBDA a : a \in DOMAIN n)
    IN  [k \in DOMAIN orden |-> [alianza |-> orden[k], pct |-> n[orden[k]]]]

\* As CreenciasFunc, the default looked up only when the seccion has no entry
CreenciasFuncPerezosa(cps, s, sxa) ==
    IF s \in DOMAIN cps
    THEN [error |-> FALSE, items |-> ItemsNormalizados(cps[s], s, sxa)]
    ELSE IF ClaveGlobal \notin DOMAIN cps
    THEN [error |-> TRUE, items |-> <<>>]
    ELSE [error |-> FALSE, items |-> ItemsNormalizados(cps[ClaveGlobal], s, sxa)]

\* _creencias_func(seccion) (lines 185-189): the default of .get is
\* evaluated before the lookup, so a mapping without "global" raises
\* KeyError
CreenciasFunc(cps, s, sxa) ==
    IF ClaveGlobal \notin DOMAIN cps
    THEN [error |-> TRUE, items |-> <<>>]
    ELSE [error |-> FALSE,
          items |-> ItemsNormalizados(
                        IF s \in DOMAIN cps THEN cps[s] ELSE cps[ClaveGlobal],
                        s, sxa)]

\* Lines 191-196 for one chamber: whether a call of _creencias_func raises,
\* and the rows otherwise
FilasPorSeccion(secs, cps, sxa) ==
    LET r == [i \in DOMAIN secs |-> CreenciasFunc(cps, secs[i].seccion, sxa)]
    IN  IF \E i \in DOMAIN secs : r[i].error
        THEN [error |-> TRUE, filas |-> <<>>]
        ELSE [error |-> FALSE,
              filas |-> GenerarFilasParaCamara(
                            secs, [i \in DOMAIN secs |-> PadronSec[secs[i].seccion]],
                            [i \in DOMAIN secs |-> r[i].items], TasaSec)]

InitSec ==
    /\ \E K \in SUBSET {ClaveGlobal, 1, 2, 3} :
          creenciasPorSeccion \in [K -> VectoresSec]
    /\ \E S \in SUBSET {1, 2, 3} :
          seccionesXAlianzaSec = [a \in {"A", "B"} |-> IF a = "A" THEN {1, 2, 3} ELSE S]
    /\ filasDip = <<>>
    /\ filasSen = <<>>
    /\ dipSec = <<>>
    /\ senSec = <<>>
    /\ pcSec = "inicio"
    /\ RepartoInactivo
    /\ FilasInactivo
    /\ MedoidInactivo
    /\ LoteInactivo
    /\ SimInactivo
    /\ NormInactivo
    /\ BotonInactivo

\* Lines 191-196
MaterializarPorSeccion ==
    /\ pcSec = "inicio"
    /\ LET d == FilasPorSeccion(SeccionesDiputadosSec, creenciasPorSeccion,
                                seccionesXAlianzaSec)
           n == FilasPorSeccion(SeccionesSenadoresSec, creenciasPorSeccion,
                                seccionesXAlianzaSec)
       IN  /\ ~d.error /\ ~n.error
           /\ filasDip' = d.filas
           /\ filasSen' = n.filas
    /\ pcSec' = "repartir"
    /\ UNCHANGED <<creenciasPorSeccion, seccionesXAlianzaSec, dipSec, senSec>>
    /\ UNCHANGED <<varsReparto, varsFilas, varsMedoid, varsLote, varsSim, varsNorm,
                   varsBoton>>

\* Line 186 raising KeyError in the first call of _creencias_func
PorSeccionKeyError ==
    /\ pcSec = "inicio"
    /\ FilasPorSeccion(SeccionesDiputadosSec, creenciasPorSeccion,
                       seccionesXAlianzaSec).error
    /\ pcSec' = "KeyError"
    /\ UNCHANGED <<creenciasPorSeccion, seccionesXAlianzaSec, filasDip, filasSen,
                   dipSec, senSec>>
    /\ UNCHANGED <<varsReparto, varsFilas, varsMedoid, varsLote, varsSim, varsNorm,
                   varsBoton>>

\* Lines 198-201 when both calls of repartir_bancas return
RepartirPorSeccion ==
    /\ pcSec = "repartir"
    /\ RepartirBancasNombres(filasDip).estado = "ok"
    /\ RepartirBancasNombres(filasSen).estado = "ok"
    /\ dipSec' = RepartirBancasNombres(filasDip).filas
    /\ senSec' = RepartirBancasNombres(filasSen).filas
    /\ pcSec' = "fin"
    /\ UNCHANGED <<creenciasPorSeccion, seccionesXAlianzaSec, filasDip, filasSen>>
    /\ UNCHANGED <<varsReparto, varsFilas, varsMedoid, varsLote, varsSim, varsNorm,
                   varsBoton>>

\* Lines 198-199 when a call of repartir_bancas stays in its while loop
PorSeccionColgado ==
    /\ pcSec = "repartir"
    /\ \/ RepartirBancasNombres(filasDip).estado = "no termina"
       \/ RepartirBancasNombres(filasSen).estado = "no termina"
    /\ pcSec' = "bucle"
    /\ UNCHANGED <<creenciasPorSeccion, seccionesXAlianzaSec, filasDip, filasSen,
                   dipSec, senSec>>
    /\ UNCHANGED <<varsReparto, varsFilas, varsMedoid, varsLote, varsSim, varsNorm,
                   varsBoton>>

NextSec ==
    \/ MaterializarPorSeccion
    \/ PorSeccionKeyError
    \/ RepartirPorSeccion
    \/ PorSeccionColgado

SpecSec == InitSec /\ [][NextSec]_vars

\* The secciones of the two chambers
SeccionesSec ==
    {SeccionesDiputadosSec[i].seccion : i \in DOMAIN SeccionesDiputadosSec} \cup
    {SeccionesSenadoresSec[i].seccion : i \in DOMAIN SeccionesSenadoresSec}

\* The rows of seccion s among the rows materialized for the two chambers
FilasMaterializadas(s) ==
    SelectSeq(filasDip \o filasSen,
              LAMBDA r : r.seccion = s /\ r.lista # "Ninguna")

\* The votes belief vector b gives the lists that compete in seccion s, as
\* pairs of list and votes
VotosEsperados(b, s) ==
    LET comp  == SelectSeq(AlianzasSec,
                     LAMBDA a : s \in seccionesXAlianzaSec[a])
        total == SumSeq([k \in DOMAIN comp |-> b[comp[k]]])
        val   == (PadronSec[s] * TasaSec.participacion
                    * TasaSec.votos_validos_pct) \div 16
    IN  IF total = 0 THEN <<>>
        ELSE [k \in DOMAIN comp |->
                 [lista |-> comp[k], votos |-> (val * b[comp[k]]) \div total]]

\* C22: a seccion with an entry of its own in creencias_por_seccion is
\* materialized from that entry and a seccion without one from the entry
\* "global"; a mapping without "global" is rejected with an error, even
\* when every seccion has an entry of its own
C22_EntradaPorSeccion ==
    /\ pcSec \in {"repartir", "fin", "bucle"} =>
          /\ ClaveGlobal \in DOMAIN creenciasPorSeccion
          /\ \A s \in SeccionesSec :
                LET b == IF s \in DOMAIN creenciasPorSeccion
                         THEN creenciasPorSeccion[s]
                         ELSE creenciasPorSeccion[ClaveGlobal]
                    f == FilasMaterializadas(s)
                IN  [k \in DOMAIN f |-> [lista |-> f[k].lista, votos |-> f[k].votos]]
                      = VotosEsperados(b, s)
    /\ ClaveGlobal \notin DOMAIN creenciasPorSeccion =>
          pcSec \in {"inicio", "KeyError"}

C22_Witness ==
    /\ pcSec = "fin"
    /\ 1 \in DOMAIN creenciasPorSeccion
    /\ 2 \notin DOMAIN creenciasPorSeccion
    /\ VotosEsperados(creenciasPorSeccion[1], 1)
         # VotosEsperados(creenciasPorSeccion[ClaveGlobal], 1)
    /\ Len(FilasMaterializadas(1)) = 2
    /\ Len(FilasMaterializadas(2)) = 2

-----------------------------------------------------------------------------
(* The handler of the run button (app.py lines 541-549 and 578-720) over   *)
(* successive runs of the script, with the functions of app.py it calls    *)
(* (lines 113-119 and 131-193).  The simulation branch is taken by the     *)
(* steps of the simulation above.  The two branches work on the same       *)
(* secciones, padron and SECCIONES_X_ALIANZA.                              *)

\* The most the slider "Simulaciones" is set to
MaxSimBoton == 1

\* SECCIONES_DIPUTADOS and SECCIONES_SENADORES, in iteration order
SeccionesDeCamaraApp(c) ==
    [k \in DOMAIN SeccionesDeCamara(c) |->
        [seccion |-> SeccionesDeCamara(c)[k].sec,
         cargos |-> SeccionesDeCamara(c)[k].cargos]]

\* What the sliders of the global beliefs can show: those of the
\* simulation, a total under 100 and a total over 100
SlidersPosibles ==
    {SeriePorLista(c) : c \in CreenciasSimPosibles}
        \cup {SeriePorLista(<<50, 25, 0>>), SeriePorLista(<<80, 80, 80>>)}

\* The dict sliders of a seccion (lines 593-609): one slider for every
\* alliance that competes there, showing what c gives it
SlidersDeSeccion(s, c) ==
    [a \in {b \in DOMAIN SeccionesXAlianzaSim : s \in SeccionesXAlianzaSim[b]} |->
        c[a]]

\* The entries the block "Por sección" can add to creencias_por_seccion:
\* none while no seccion is chosen
EntradasPorSeccionPosibles ==
    { <<>>,
      [s \in {1} |-> SlidersDeSeccion(s, SeriePorLista(<<100, 0, 0>>))],
      [s \in {2} |-> SlidersDeSeccion(s, SeriePorLista(<<50, 50, 0>>))],
      [s \in {1, 2} |-> SlidersDeSeccion(s, SeriePorLista(<<80, 20, 20>>))] }

\* total_pct = sum(sliders.values())
TotalPct(c) == SumSeq([j \in DOMAIN ListasSim |-> c[ListasSim[j]]])

\* As DebeDetener, stopping only below 100
DebeDetenerSiFalta(total) == total < 100

\* The test of line 627
DebeDetener(total) == total # 100

\* creencias_por_seccion as lines 582-612 build it: "global" and the
\* entries of the secciones chosen
ConGlobal(c, extra) ==
    [k \in {ClaveGlobal} \cup DOMAIN extra |->
        IF k = ClaveGlobal THEN c ELSE extra[k]]

\* _filas_para_camara (lines 131-141) from the i-th seccion on, base giving
\* the belief vector of every seccion
RECURSIVE FilasParaCamaraApp(_, _, _)
FilasParaCamaraApp(secs, base, i) ==
    IF i > Len(secs) THEN <<>>
    ELSE FilasDeSeccion(secs[i], PadronSim[secs[i].seccion],
                        ItemsNormalizados(base[secs[i].seccion],
                                          secs[i].seccion, SeccionesXAlianzaSim),
                        TasaSim)
         \o FilasParaCamaraApp(secs, base, i + 1)

\* The belief vector creencias_func hands to the normalization: the same
\* for every seccion (line 152), or that of the seccion with "global" as
\* the default (lines 171-172)
\* .get evaluates its default first, so a mapping without "global" raises
\* KeyError whatever the seccion
BaseGlobal(c) == [error |-> FALSE, de |-> [s \in DOMAIN PadronSim |-> c]]
BasePorSeccion(cps) ==
    IF ClaveGlobal \notin DOMAIN cps
    THEN [error |-> TRUE, de |-> <<>>]
    ELSE [error |-> FALSE,
          de |-> [s \in DOMAIN PadronSim |->
                    IF s \in DOMAIN cps THEN cps[s] ELSE cps[ClaveGlobal]]]

\* Lines 154-160 and 174-180
CalcularApp(base) ==
    IF base.error THEN [estado |-> "KeyError", dip |-> <<>>, sen |-> <<>>]
    ELSE LET dip == RepartirBancas(
                        FilasParaCamaraApp(SeccionesDeCamaraApp("diputados"), base.de, 1))
             sen == RepartirBancas(
                        FilasParaCamaraApp(SeccionesDeCamaraApp("senadores"), base.de, 1))
         IN  [estado |-> IF dip.estado # "ok" THEN dip.estado ELSE sen.estado,
              dip |-> dip.filas, sen |-> sen.filas]

\* df.groupby("lista").bancas.sum()
BancasPorLista(f) ==
    [a \in {f[i].lista : i \in DOMAIN f} |->
        LET g == SelectSeq(f, LAMBDA r : r.lista = a)
        IN  SumSeq([i \in DOMAIN g |-> g[i].bancas])]

\* The dict lines 651-659 store
ResultadosDeterministas(r) ==
    [dip_final |-> SumarNoRenovados(BancasPorLista(r.dip), NoRenuevanApp.diputados),
     sen_final |-> SumarNoRenovados(BancasPorLista(r.sen), NoRenuevanApp.senadores),
     modo |-> "determinista",
     dip_nuevas |-> r.dip,
     sen_nuevas |-> r.sen,
     participacion |-> TasaSim.participacion,
     votos_validos_pct |-> TasaSim.votos_validos_pct]

\* A session that has shown the page and stored nothing yet
InitBoton ==
    /\ creenciasGlobal \in SlidersPosibles
    /\ esDeterministico = TRUE
    /\ cfgSeccion = FALSE
    /\ creenciasSecApp = ConGlobal(creenciasGlobal, <<>>)
    /\ sesion = <<>>
    /\ llamadas = <<>>
    /\ corridas = 0
    /\ pcBoton = "espera"
    /\ RepartoInactivo
    /\ FilasInactivo
    /\ MedoidInactivo
    /\ LoteInactivo
    /\ SimInactivo
    /\ NormInactivo
    /\ SecInactivo

\* The simulation branch is at a call of an element: st.progress and
\* st.empty of lines 670-671 before the first turn of the loop,
\* prog.progress and txt.text of lines 678-679 after the appends of a turn
\* whose i is a multiple of 10, prog.empty and txt.empty of line 681 after
\* the loop.  Inside such a call the script runner ends the run when a
\* rerun is pending, with nothing stored
EnLlamadaDeElemento ==
    /\ pcBoton = "simulando"
    /\ pcSim = "bucle"
    /\ \/ iSim = 0
       \/ iSim > 0 /\ (iSim - 1) % 10 = 0
       \/ iSim = nSim

\* The run of the script can give way to the next one: it stopped, it
\* stored its result, the simulation raised ValueError, or the simulation
\* is at a call of an element, where a pending rerun ends it
CorridaTerminada ==
    \/ pcBoton \in {"espera", "detenido", "guardado"}
    \/ pcBoton = "simulando" /\ pcSim \in {"fin", "ValueError"}
    \/ EnLlamadaDeElemento

\* The user sets the widgets and presses the button: the script runs again
\* from the top to line 625, after the run before it has come to its end or
\* has been ended inside a call of an element.  The radio of lines 541-544 has one string,
\* not a tuple, for its options: a Streamlit that takes the string for one
\* option always gives es_deterministico True, one that takes its
\* characters for the options gives False for every character but the
\* first.  The checkbox of line 548 is there in deterministic mode only,
\* and the multiselect and the sliders of the secciones when it is ticked.
PresionarBoton ==
    /\ CorridaTerminada
    /\ corridas < MaxCorridas
    /\ creenciasGlobal' \in SlidersPosibles
    /\ esDeterministico' \in BOOLEAN
    /\ cfgSeccion' \in (IF esDeterministico' THEN BOOLEAN ELSE {FALSE})
    /\ \E extra \in (IF cfgSeccion' THEN EntradasPorSeccionPosibles ELSE {<<>>}) :
          creenciasSecApp' = ConGlobal(creenciasGlobal', extra)
    /\ llamadas' = <<>>
    /\ corridas' = corridas + 1
    /\ pcBoton' = "validar"
    /\ creenciasSim' = <<>>
    /\ phi' = <<>>
    /\ nSim' = 0
    /\ pesosDir' = <<>>
    /\ iSim' = 0
    /\ dipSim' = <<>>
    /\ senSim' = <<>>
    /\ pcSim' = "inactivo"
    /\ PProv' = <<>>
    /\ camara' = ""
    /\ kSec' = 0
    /\ filasSim' = <<>>
    /\ dipActual' = <<>>
    /\ sorteos' = <<>>
    /\ resultados' = <<>>
    /\ UNCHANGED sesion
    /\ UNCHANGED <<varsReparto, varsFilas, varsMedoid, varsLote, varsNorm, varsSec>>

\* Lines 627-629: st.error and st.stop end the run
DetenerCorrida ==
    /\ pcBoton = "validar"
    /\ DebeDetener(TotalPct(creenciasGlobal))
    /\ pcBoton' = "detenido"
    /\ UNCHANGED <<creenciasGlobal, esDeterministico, cfgSeccion, creenciasSecApp,
                   sesion, llamadas, corridas>>
    /\ UNCHANGED <<varsReparto, varsFilas, varsMedoid, varsLote, varsSim, varsNorm,
                   varsSec>>

\* Lines 639-659: calcular_determinista and the store
CalcularGlobal ==
    /\ pcBoton = "validar"
    /\ ~DebeDetener(TotalPct(creenciasGlobal))
    /\ esDeterministico
    /\ ~(cfgSeccion /\ DOMAIN creenciasSecApp # {})
    /\ LET r == CalcularApp(BaseGlobal(creenciasGlobal))
       IN  /\ r.estado = "ok"
           /\ sesion' = ResultadosDeterministas(r)
    /\ llamadas' = Append(llamadas, "calcular_determinista")
    /\ pcBoton' = "guardado"
    /\ UNCHANGED <<creenciasGlobal, esDeterministico, cfgSeccion, creenciasSecApp,
                   corridas>>
    /\ UNCHANGED <<varsReparto, varsFilas, varsMedoid, varsLote, varsSim, varsNorm,
                   varsSec>>

\* Lines 633-638 and 646-659: calcular_determinista_por_seccion and the
\* store.  creencias_por_seccion always holds "global", so the branch is
\* taken whenever the checkbox is ticked, with a seccion chosen or none
CalcularPorSeccion ==
    /\ pcBoton = "validar"
    /\ ~DebeDetener(TotalPct(creenciasGlobal))
    /\ esDeterministico
    /\ cfgSeccion /\ DOMAIN creenciasSecApp # {}
    /\ LET r == CalcularApp(BasePorSeccion(creenciasSecApp))
       IN  /\ r.estado = "ok"
           /\ sesion' = ResultadosDeterministas(r)
    /\ llamadas' = Append(llamadas, "calcular_determinista_por_seccion")
    /\ pcBoton' = "guardado"
    /\ UNCHANGED <<creenciasGlobal, esDeterministico, cfgSeccion, creenciasSecApp,
                   corridas>>
    /\ UNCHANGED <<varsReparto, varsFilas, varsMedoid, varsLote, varsSim, varsNorm,
                   varsSec>>

\* Lines 661-662: the simulation branch is entered, with the sliders of the
\* beliefs, the slider "Simulaciones" and phi_hier
EntrarSimulacion ==
    /\ pcBoton = "validar"
    /\ ~DebeDetener(TotalPct(creenciasGlobal))
    /\ ~esDeterministico
    /\ creenciasSim' = [j \in DOMAIN ListasSim |-> creenciasGlobal[ListasSim[j]]]
    /\ phi' = [definido |-> TRUE, valor |-> PhiHier]
    /\ nSim' \in 1..MaxSimBoton
    /\ PProv' = NingunP
    /\ pcSim' = "inicio"
    /\ pcBoton' = "simulando"
    /\ UNCHANGED <<pesosDir, iSim, dipSim, senSim, camara, kSec, filasSim,
                   dipActual, sorteos, resultados>>
    /\ UNCHANGED <<creenciasGlobal, esDeterministico, cfgSeccion, creenciasSecApp,
                   sesion, llamadas, corridas>>
    /\ UNCHANGED <<varsReparto, varsFilas, varsMedoid, varsLote, varsNorm, varsSec>>

NextBoton ==
    \/ PresionarBoton
    \/ DetenerCorrida
    \/ CalcularGlobal
    \/ CalcularPorSeccion
    \/ EntrarSimulacion
    \/ SimPreparar
    \/ SimLlamar
    \/ SimSeccion
    \/ SimSeccionFalla
    \/ SimRepartirDiputados
    \/ SimColgado
    \/ SimRepartirSenadores
    \/ SimResumir

SpecBoton == InitBoton /\ [][NextBoton]_vars

\* C23: a run whose global percentages do not add up to 100 invokes no
\* computation and leaves st.session_state.resultados as it was; a
\* computation is invoked, a branch taken and a result stored only in a
\* run whose total is exactly 100
C23_ValidaAntesDeCalcular ==
    [][/\ pcBoton = "validar" /\ TotalPct(creenciasGlobal) # 100 =>
             /\ sesion' = sesion
             /\ llamadas' = llamadas /\ llamadas = <<>>
             /\ pcBoton' = "detenido"
       /\ llamadas' # llamadas /\ llamadas' # <<>> =>
             TotalPct(creenciasGlobal) = 100
       /\ sesion' # sesion \/ pcBoton' \notin {"validar", "detenido"} =>
             TotalPct(creenciasGlobal) = 100]_vars

\* A run in simulation mode is stopped with the result of a simulation in
\* store
C23_Witness ==
    /\ pcBoton = "detenido"
    /\ corridas = 2
    /\ ~esDeterministico
    /\ sesion # <<>>
    /\ sesion.modo = "simulacion"
    /\ llamadas = <<>>
    /\ TotalPct(creenciasGlobal) > 100

-----------------------------------------------------------------------------
(* The rows of a simulated draw against SECCIONES_X_ALIANZA                *)

\* The rows of f that hold votes or seats of a list outside its secciones
FilasFueraDeSeccion(f) ==
    SelectSeq(f, LAMBDA r : /\ r.seccion \notin SeccionesXAlianzaSim[r.lista]
                            /\ r.votos > 0 \/ (("bancas" \in DOMAIN r) /\ r.bancas > 0))

\* C30: no row of a simulated draw, before or after the apportionment,
\* gives votes or seats to an alliance in a seccion where it does not
\* compete
C30_SoloAlianzasDeLaSeccion ==
    /\ FilasFueraDeSeccion(filasSim) = <<>>
    /\ FilasFueraDeSeccion(dipActual) = <<>>
    /\ \A i \in DOMAIN dipSim : FilasFueraDeSeccion(dipSim[i]) = <<>>
    /\ \A i \in DOMAIN senSim : FilasFueraDeSeccion(senSim[i]) = <<>>

====
